---- MODULE Spec2Model ----
(***************************************************************************)
(* The SAS source analyzer of datainteg/sas, in its two implementations:   *)
(*   "class" : EnhancedSASAnalyzer            (src/Code/sas_analysis.py)   *)
(*   "func"  : the module-level analyzer      (src/Gantt_new.py)           *)
(* One forward pass over the input lines, a stack of open blocks, a stack  *)
(* of open macros, the PROC SQL collector and the fact tables.             *)
(*                                                                         *)
(* A source line is a sequence of lexemes [k, v, lc]: k the lexeme kind,   *)
(* v its text in upper case, lc whether the raw text is in lower case.     *)
(* The regular expressions of the source are operators over such           *)
(* sequences.  Identifiers of the line catalogue are whole words: none of  *)
(* them merely contains a keyword (no "XRUN", no "%MENDS").                *)
(***************************************************************************)
EXTENDS Integers, Sequences, FiniteSets, TLC

VARIABLES impl, profile, source, pc, run, lines, results, state

vars == <<impl, profile, source, pc, run, lines, results, state>>

(* ------------------------------ bounds -------------------------------- *)
\* longest input, in lines
MaxLines == 4
\* calls of analyze_lines in the "rerun" profile
MaxRuns == 2

\* Python's None where a line number is expected
None == -1
\* Python's None where a name is expected
NoneName == "<None>"

(* ------------------------------ lexemes ------------------------------- *)
Lx(k, v) == [k |-> k, v |-> v, lc |-> FALSE]
W == Lx("ws", " ")
Id(v) == Lx("id", v)
Qid(v) == Lx("qid", v)
Pct(v) == Lx("pct", v)
Semi == Lx("semi", ";")
Eq == Lx("eq", "=")
Star == Lx("star", "*")
Par(v) == Lx("par", v)
Num(v) == Lx("num", v)
\* a complete /* ... */ comment; v names its content
Cmt(v) == Lx("cmt", v)
\* a quoted string; v is the text between the quotes
Str(v) == Lx("str", v)
\* a timestamp literal, date and time of day
Ts(v) == Lx("ts", v)
Lower(lx) == [lx EXCEPT !.lc = TRUE]
Eol == Lx("eol", "")

\* The line catalogue: the raw text of a line and its lexemes.
Lex(raw) ==
  CASE raw = "" -> <<>>
    [] raw = "* NOTE;" -> <<Star, W, Id("NOTE"), Semi>>
    [] raw = "/* C */" -> <<Cmt("C")>>
    [] raw = "DATA OUT1;" -> <<Id("DATA"), W, Id("OUT1"), Semi>>
    [] raw = "DATA OUT1 LIB.OUT2;" ->
         <<Id("DATA"), W, Id("OUT1"), W, Qid("LIB.OUT2"), Semi>>
    [] raw = "data out1; run;" ->
         <<Lower(Id("DATA")), W, Lower(Id("OUT1")), Semi, W, Lower(Id("RUN")), Semi>>
    [] raw = "  SET IN1;" -> <<W, W, Id("SET"), W, Id("IN1"), Semi>>
    [] raw = "RUN;" -> <<Id("RUN"), Semi>>
    [] raw = "RUN ;" -> <<Id("RUN"), W, Semi>>
    [] raw = "QUIT;" -> <<Id("QUIT"), Semi>>
    [] raw = "RUN; QUIT;" -> <<Id("RUN"), Semi, W, Id("QUIT"), Semi>>
    [] raw = "RUN; %MEND;" -> <<Id("RUN"), Semi, W, Pct("MEND"), Semi>>
    [] raw = "PROC SQL;" -> <<Id("PROC"), W, Id("SQL"), Semi>>
    [] raw = "PROC SQL; QUIT;" -> <<Id("PROC"), W, Id("SQL"), Semi, W, Id("QUIT"), Semi>>
    [] raw = "PROC SORT DATA=X;" ->
         <<Id("PROC"), W, Id("SORT"), W, Id("DATA"), Eq, Id("X"), Semi>>
    [] raw = "RUN; PROC SORT DATA=X;" ->
         <<Id("RUN"), Semi, W, Id("PROC"), W, Id("SORT"), W, Id("DATA"), Eq, Id("X"), Semi>>
    [] raw = "PROC PRINT DATA=X; RUN;" ->
         <<Id("PROC"), W, Id("PRINT"), W, Id("DATA"), Eq, Id("X"), Semi, W,
           Id("RUN"), Semi>>
    [] raw = "%MACRO FOO(X);" -> <<Pct("MACRO"), W, Id("FOO"), Par("(X)"), Semi>>
    [] raw = "%MACRO BAR(Y);" -> <<Pct("MACRO"), W, Id("BAR"), Par("(Y)"), Semi>>
    [] raw = "%MACRO FOO;" -> <<Pct("MACRO"), W, Id("FOO"), Semi>>
    [] raw = "%MEND FOO;" -> <<Pct("MEND"), W, Id("FOO"), Semi>>
    [] raw = "%MEND BAR;" -> <<Pct("MEND"), W, Id("BAR"), Semi>>
    [] raw = "%MEND;" -> <<Pct("MEND"), Semi>>
    [] raw = "CREATE TABLE T1 AS SELECT * FROM RAW.SRC;" ->
         <<Id("CREATE"), W, Id("TABLE"), W, Id("T1"), W, Id("AS"), W, Id("SELECT"),
           W, Star, W, Id("FROM"), W, Qid("RAW.SRC"), Semi>>
    [] raw = "select 1 /* RUN; */" ->
         <<Lower(Id("SELECT")), W, Num("1"), W, Cmt("RUN;")>>
    [] raw = "/* C */ PROC SQL;" -> <<Cmt("C"), W, Id("PROC"), W, Id("SQL"), Semi>>
    [] raw = "create table work.t2 as" ->
         <<Lower(Id("CREATE")), W, Lower(Id("TABLE")), W, Lower(Qid("WORK.T2")), W,
           Lower(Id("AS"))>>
    [] raw = "CREATE OR REPLACE TABLE LIB.T3 AS" ->
         <<Id("CREATE"), W, Id("OR"), W, Id("REPLACE"), W, Id("TABLE"), W,
           Qid("LIB.T3"), W, Id("AS")>>
    [] raw = "SELECT * FROM T1;" ->
         <<Id("SELECT"), W, Star, W, Id("FROM"), W, Id("T1"), Semi>>
    [] raw = "%INCLUDE 'a.sas';" -> <<Pct("INCLUDE"), W, Lower(Str("A.SAS")), Semi>>
    [] raw = "%INCLUDE MYLIB;" -> <<Pct("INCLUDE"), W, Id("MYLIB"), Semi>>
    [] raw = "%LET X=1;" -> <<Pct("LET"), W, Id("X"), Eq, Num("1"), Semi>>
    [] raw = "%LET D=%SYSFUNC(X);" ->
         <<Pct("LET"), W, Id("D"), Eq, Pct("SYSFUNC"), Par("(X)"), Semi>>
    [] raw = "%IF X=1 %THEN %DO;" ->
         <<Pct("IF"), W, Id("X"), Eq, Num("1"), W, Pct("THEN"), W, Pct("DO"), Semi>>
    [] raw = "%FOO(1);" -> <<Pct("FOO"), Par("(1)"), Semi>>
    [] raw = "LIBNAME MYLIB 'path';" ->
         <<Id("LIBNAME"), W, Id("MYLIB"), W, Lower(Str("PATH")), Semi>>
    [] raw = "ODS HTML;" -> <<Id("ODS"), W, Id("HTML"), Semi>>
    [] raw = "T=2024-06-30 12:00:00;" -> <<Id("T"), Eq, Ts("2024-06-30 12:00:00"), Semi>>
    [] raw = "T=2024-01-01 00:00:00;" -> <<Id("T"), Eq, Ts("2024-01-01 00:00:00"), Semi>>
    [] raw = "T=01/02/2023 00:00:00;" -> <<Id("T"), Eq, Ts("01/02/2023 00:00:00"), Semi>>
    [] raw = "A=2024-06-30 12:00:00 B=01/02/2023 00:00:00;" ->
         <<Id("A"), Eq, Ts("2024-06-30 12:00:00"), W, Id("B"), Eq,
           Ts("01/02/2023 00:00:00"), Semi>>
    [] raw = "/* 2024-01-01 00:00:00 */" -> <<Cmt("2024-01-01 00:00:00")>>
    [] raw = "X=1; /* 01/02/2023 00:00:00 */" ->
         <<Id("X"), Eq, Num("1"), Semi, W, Cmt("01/02/2023 00:00:00")>>
    [] raw = "X=1;" -> <<Id("X"), Eq, Num("1"), Semi>>

(* --------------------------- regex helpers ---------------------------- *)
At(s, i) == IF i \in 1..Len(s) THEN s[i] ELSE Eol

\* \s* from position i: the first position at or after i that is no blank
RECURSIVE SkipWs(_, _)
SkipWs(s, i) == IF At(s, i).k = "ws" THEN SkipWs(s, i + 1) ELSE i

\* the least position of s satisfying P, 0 when there is none
FirstPos(s, P(_)) ==
  IF \E i \in 1..Len(s) : P(i)
  THEN CHOOSE i \in 1..Len(s) : P(i) /\ \A j \in 1..(i - 1) : ~P(j)
  ELSE 0

IsWord(lx, w) == lx.k = "id" /\ lx.v = w
\* [A-Z_][A-Z0-9_.]* taken at a lexeme start
IsDsName(lx) == lx.k \in {"id", "qid"}
\* [A-Z_][A-Z0-9_]* taken at a lexeme start
IsIdent(lx) == lx.k = "id"

\* str.upper()
upper(s) == [i \in 1..Len(s) |-> [s[i] EXCEPT !.lc = FALSE]]

\* str.strip(): blanks removed at both ends
RECURSIVE lstrip(_)
lstrip(s) == IF s # <<>> /\ Head(s).k = "ws" THEN lstrip(Tail(s)) ELSE s
RECURSIVE rstrip(_)
rstrip(s) ==
  IF s # <<>> /\ s[Len(s)].k = "ws" THEN rstrip(SubSeq(s, 1, Len(s) - 1)) ELSE s
strip(s) == rstrip(lstrip(s))

\* 'RUN;' in line, 'QUIT;' in line: the word directly followed by a semicolon
ContainsWordSemi(s, w) ==
  \E i \in 1..Len(s) : s[i].k \in {"id", "pct"} /\ s[i].v = w /\ At(s, i + 1).k = "semi"
\* '%MEND' in line
ContainsMend(s) == \E i \in 1..Len(s) : s[i].k = "pct" /\ s[i].v = "MEND"
\* the text inside comments counts when the raw line is searched
CommentHas(lx, w) == lx.k = "cmt" /\ lx.v = w

(* ------------------------ 4.1 line normalizer ------------------------- *)
\* re.sub(r'/\*.*?\*/', '', line): every complete comment is removed
StripBlockComments(s) == SelectSeq(s, LAMBDA lx : lx.k # "cmt")
\* re.sub(r'^\s*\*.*$', '', line): a line whose first non-blank is * is emptied
StripLineComment(s) == IF At(s, SkipWs(s, 1)).k = "star" THEN <<>> ELSE s

clean_line(line) == upper(StripLineComment(StripBlockComments(line)))

(* ------------------------ 4.2 line classifier ------------------------- *)
\* re.match(r'^\s*WORD\s+', line) for a keyword at the start of the line
StartsWithWordWs(s, kind, w) ==
  LET i == SkipWs(s, 1)
  IN  At(s, i).k = kind /\ At(s, i).v = w /\ At(s, i + 1).k = "ws"

\* the classifier with the test for a macro call before the test for a macro
\* definition
classify_line_call_first(line) ==
  IF StartsWithWordWs(line, "pct", "INCLUDE") THEN "INCLUDE"
  ELSE IF StartsWithWordWs(line, "id", "DATA") THEN "DATA_STEP"
  ELSE IF StartsWithWordWs(line, "id", "PROC") THEN "PROCEDURE"
  ELSE IF At(line, SkipWs(line, 1)).k = "pct" THEN "MACRO_CALL"
  ELSE IF StartsWithWordWs(line, "pct", "MACRO") THEN "MACRO_DEF"
  ELSE IF StartsWithWordWs(line, "id", "LIBNAME") THEN "LIBRARY"
  ELSE IF StartsWithWordWs(line, "id", "ODS") THEN "ODS"
  ELSE IF ContainsWordSemi(line, "RUN") \/ ContainsWordSemi(line, "QUIT") THEN "TERMINATOR"
  ELSE "STATEMENT"

classify_line(line) ==
  IF StartsWithWordWs(line, "pct", "INCLUDE") THEN "INCLUDE"
  ELSE IF StartsWithWordWs(line, "id", "DATA") THEN "DATA_STEP"
  ELSE IF StartsWithWordWs(line, "id", "PROC") THEN "PROCEDURE"
  ELSE IF StartsWithWordWs(line, "pct", "MACRO") THEN "MACRO_DEF"
  ELSE IF At(line, SkipWs(line, 1)).k = "pct" THEN "MACRO_CALL"
  ELSE IF StartsWithWordWs(line, "id", "LIBNAME") THEN "LIBRARY"
  ELSE IF StartsWithWordWs(line, "id", "ODS") THEN "ODS"
  ELSE IF ContainsWordSemi(line, "RUN") \/ ContainsWordSemi(line, "QUIT") THEN "TERMINATOR"
  ELSE "STATEMENT"

(* ------------------------- 4.3 block tracker -------------------------- *)
\* NAME(\s+NAME)* from position j, as the list of the names
RECURSIVE DsNameList(_, _)
DsNameList(s, j) ==
  <<s[j].v>> \o
    (IF At(s, j + 1).k = "ws" /\ IsDsName(At(s, SkipWs(s, j + 1)))
     THEN DsNameList(s, SkipWs(s, j + 1))
     ELSE <<>>)

\* DATA\s+([A-Z_][A-Z0-9_.]*(?:\s+[A-Z_][A-Z0-9_.]*)*) with DATA at position i
DataAt(s, i) ==
  IsWord(At(s, i), "DATA") /\ At(s, i + 1).k = "ws" /\ IsDsName(At(s, SkipWs(s, i + 1)))
DataNames(s, i) == DsNameList(s, SkipWs(s, i + 1))

\* PROC\s+([A-Z]+)(?:\s+DATA\s*=\s*([A-Z_][A-Z0-9_.]*))?\s*;? with PROC at i
ProcAt(s, i) ==
  IsWord(At(s, i), "PROC") /\ At(s, i + 1).k = "ws" /\ IsIdent(At(s, SkipWs(s, i + 1)))
ProcName(s, i) == At(s, SkipWs(s, i + 1)).v
ProcDataset(s, i) ==
  LET n == SkipWs(s, i + 1)
      d == SkipWs(s, n + 1)
      e == SkipWs(s, d + 1)
      x == SkipWs(s, e + 1)
  IN  IF At(s, n + 1).k = "ws" /\ IsWord(At(s, d), "DATA") /\ At(s, e).k = "eq"
         /\ IsDsName(At(s, x))
      THEN At(s, x).v
      ELSE "UNKNOWN"

\* the text between the parentheses of a parameter list
InnerOf(par) ==
  CASE par = "(X)" -> "X"
    [] par = "(Y)" -> "Y"
    [] OTHER -> ""

\* class: %MACRO\s+([A-Z_][A-Z0-9_]*)(\([^)]*\))?\s*;?   with %MACRO at i
MacroAtClass(s, i) ==
  At(s, i).k = "pct" /\ At(s, i).v = "MACRO" /\ At(s, i + 1).k = "ws"
    /\ IsIdent(At(s, SkipWs(s, i + 1)))
\* func: %MACRO\s+([A-Z_][A-Z0-9_]*)\(([^)]*)\)?\s*;?    with %MACRO at i
MacroAtFunc(s, i) ==
  MacroAtClass(s, i) /\ At(s, SkipWs(s, i + 1) + 1).k = "par"
MacroAt(im, s, i) == IF im = "class" THEN MacroAtClass(s, i) ELSE MacroAtFunc(s, i)
MacroName(s, i) == At(s, SkipWs(s, i + 1)).v
MacroParams(im, s, i) ==
  LET p == At(s, SkipWs(s, i + 1) + 1)
  IN  IF p.k # "par" THEN "" ELSE IF im = "class" THEN p.v ELSE InnerOf(p.v)

Block(type, name, start, datasets, proc_name, dataset, macro_name, parameters) ==
  [type |-> type, name |-> name, start_line |-> start, end_line |-> None,
   datasets |-> datasets, proc_name |-> proc_name, dataset |-> dataset,
   macro_name |-> macro_name, parameters |-> parameters]

\* check_block_start that opens no block for PROC SQL
check_block_start_skips_sql(im, line, line_num, current_blocks) ==
  LET i == SkipWs(line, 1)
  IN  IF DataAt(line, i)
      THEN Append(current_blocks,
             Block("DATA", <<"DATA">> \o DataNames(line, i), line_num,
                   DataNames(line, i), NoneName, NoneName, NoneName, ""))
      ELSE IF ProcAt(line, i) /\ ProcName(line, i) # "SQL"
      THEN Append(current_blocks,
             Block("PROC", <<"PROC", ProcName(line, i)>>, line_num, <<>>,
                   ProcName(line, i), ProcDataset(line, i), NoneName, ""))
      ELSE IF MacroAt(im, line, i)
      THEN Append(current_blocks,
             Block("MACRO", <<"%MACRO", MacroName(line, i)>>, line_num, <<>>,
                   NoneName, NoneName, MacroName(line, i), MacroParams(im, line, i)))
      ELSE current_blocks

\* check_block_start: DATA, else PROC, else %MACRO; at most one block a line
check_block_start(im, line, line_num, current_blocks) ==
  LET i == SkipWs(line, 1)
  IN  IF DataAt(line, i)
      THEN Append(current_blocks,
             Block("DATA", <<"DATA">> \o DataNames(line, i), line_num,
                   DataNames(line, i), NoneName, NoneName, NoneName, ""))
      ELSE IF ProcAt(line, i)
      THEN Append(current_blocks,
             Block("PROC", <<"PROC", ProcName(line, i)>>, line_num, <<>>,
                   ProcName(line, i), ProcDataset(line, i), NoneName, ""))
      ELSE IF MacroAt(im, line, i)
      THEN Append(current_blocks,
             Block("MACRO", <<"%MACRO", MacroName(line, i)>>, line_num, <<>>,
                   NoneName, NoneName, MacroName(line, i), MacroParams(im, line, i)))
      ELSE current_blocks

\* class: 'RUN;' in line or 'QUIT;' in line or '%MEND' in line
IsBlockEndClass(s) ==
  ContainsWordSemi(s, "RUN") \/ ContainsWordSemi(s, "QUIT") \/ ContainsMend(s)
\* func: re.search(r'\b(?:RUN|QUIT)\s*;', line) or '%MEND' in line.upper()
IsBlockEndFunc(s) ==
  \/ \E i \in 1..Len(s) :
        /\ s[i].k \in {"id", "pct"}
        /\ s[i].v \in {"RUN", "QUIT"}
        /\ At(s, SkipWs(s, i + 1)).k = "semi"
  \/ ContainsMend(s)
IsBlockEnd(im, s) == IF im = "class" THEN IsBlockEndClass(s) ELSE IsBlockEndFunc(s)

\* list.pop(): the last element leaves the list
PopLast(stack) == SubSeq(stack, 1, Len(stack) - 1)
PopFirst(stack) == Tail(stack)
Top(stack) == stack[Len(stack)]

\* check_block_end with pop(0): the oldest open block is closed
check_block_end_fifo(im, line, line_num, current_blocks, function_blocks) ==
  IF IsBlockEnd(im, line) /\ current_blocks # <<>>
  THEN [current_blocks |-> PopFirst(current_blocks),
        function_blocks |->
          Append(function_blocks, [Head(current_blocks) EXCEPT !.end_line = line_num])]
  ELSE [current_blocks |-> current_blocks, function_blocks |-> function_blocks]

\* check_block_end with while for if: a closing line closes every open block
RECURSIVE check_block_end_all(_, _, _, _, _)
check_block_end_all(im, line, line_num, current_blocks, function_blocks) ==
  IF IsBlockEnd(im, line) /\ current_blocks # <<>>
  THEN check_block_end_all(im, line, line_num, PopLast(current_blocks),
         Append(function_blocks, [Top(current_blocks) EXCEPT !.end_line = line_num]))
  ELSE [current_blocks |-> current_blocks, function_blocks |-> function_blocks]

\* check_block_end with one pop for each terminator of the line
check_block_end_per_terminator(im, line, line_num, current_blocks, function_blocks) ==
  LET Closed(b) == [b EXCEPT !.end_line = line_num]
      terminators ==
        Cardinality({i \in 1..Len(line) :
          line[i].k \in {"id", "pct"} /\ line[i].v \in {"RUN", "QUIT", "MEND"}})
      n == Len(current_blocks)
  IN  IF IsBlockEnd(im, line) /\ current_blocks # <<>>
      THEN IF terminators >= 2 /\ n >= 2
           THEN [current_blocks |-> SubSeq(current_blocks, 1, n - 2),
                 function_blocks |->
                   function_blocks \o
                     <<Closed(current_blocks[n]), Closed(current_blocks[n - 1])>>]
           ELSE [current_blocks |-> PopLast(current_blocks),
                 function_blocks |-> Append(function_blocks, Closed(Top(current_blocks)))]
      ELSE [current_blocks |-> current_blocks, function_blocks |-> function_blocks]

\* check_block_end: a closing line pops the innermost open block, if any
check_block_end(im, line, line_num, current_blocks, function_blocks) ==
  IF IsBlockEnd(im, line) /\ current_blocks # <<>>
  THEN [current_blocks |-> PopLast(current_blocks),
        function_blocks |->
          Append(function_blocks, [Top(current_blocks) EXCEPT !.end_line = line_num])]
  ELSE [current_blocks |-> current_blocks, function_blocks |-> function_blocks]

\* finalize_open_blocks without the assignment of end_line
RECURSIVE finalize_open_blocks_no_end(_, _, _)
finalize_open_blocks_no_end(total_lines, current_blocks, function_blocks) ==
  IF current_blocks = <<>>
  THEN [current_blocks |-> current_blocks, function_blocks |-> function_blocks]
  ELSE finalize_open_blocks_no_end(total_lines, PopLast(current_blocks),
         Append(function_blocks, Top(current_blocks)))

\* finalize_open_blocks with if for while: only the innermost open block is closed
finalize_open_blocks_once(total_lines, current_blocks, function_blocks) ==
  IF current_blocks = <<>>
  THEN [current_blocks |-> current_blocks, function_blocks |-> function_blocks]
  ELSE [current_blocks |-> PopLast(current_blocks),
        function_blocks |->
          Append(function_blocks, [Top(current_blocks) EXCEPT !.end_line = total_lines])]

\* finalize_open_blocks: every block still open is closed at the last line
RECURSIVE finalize_open_blocks(_, _, _)
finalize_open_blocks(total_lines, current_blocks, function_blocks) ==
  IF current_blocks = <<>>
  THEN [current_blocks |-> current_blocks, function_blocks |-> function_blocks]
  ELSE finalize_open_blocks(total_lines, PopLast(current_blocks),
         Append(function_blocks, [Top(current_blocks) EXCEPT !.end_line = total_lines]))

(* ----------------------- 4.4 feature extractors ----------------------- *)
\* a defaultdict(list) is a function on the keys met so far
EmptyDict == <<>>
\* d[key].append(val)
AddTo(d, key, val) ==
  [x \in DOMAIN d \cup {key} |->
     IF x = key THEN (IF key \in DOMAIN d THEN Append(d[key], val) ELSE <<val>>)
     ELSE d[x]]
\* d[key] = val
SetKey(d, key, val) == [x \in DOMAIN d \cup {key} |-> IF x = key THEN val ELSE d[x]]
\* for key in keys: d[key].append(val)
RECURSIVE AddAll(_, _, _)
AddAll(d, keys, val) ==
  IF keys = <<>> THEN d ELSE AddAll(AddTo(d, Head(keys), val), Tail(keys), val)

\* dataset creation that records the first operand only
analyze_data_created_first_only(line, line_num, datasets_created) ==
  LET i == FirstPos(line, LAMBDA p : DataAt(line, p))
  IN  IF i = 0 THEN datasets_created
      ELSE AddTo(datasets_created, Head(DataNames(line, i)), line_num)

\* analyze_data_operations, dataset creation: re.search takes the first DATA
\* statement of the line, wherever it starts
analyze_data_created(line, line_num, datasets_created) ==
  LET i == FirstPos(line, LAMBDA p : DataAt(line, p))
  IN  IF i = 0 THEN datasets_created
      ELSE AddAll(datasets_created, DataNames(line, i), line_num)

\* analyze_data_operations, dataset usage:
\* VERB\s+([A-Z_][A-Z0-9_.]*(?:\s+[A-Z_][A-Z0-9_.]*)*?)(?:\s|;|$), every match;
\* the lazy repetition stops at the first name
UsageAt(s, i, verb) ==
  /\ IsWord(At(s, i), verb)
  /\ At(s, i + 1).k = "ws"
  /\ IsDsName(At(s, SkipWs(s, i + 1)))
  /\ At(s, SkipWs(s, i + 1) + 1).k \in {"ws", "semi", "eol"}
RECURSIVE UsageKeys(_, _, _)
UsageKeys(s, i, verb) ==
  IF i > Len(s) THEN <<>>
  ELSE IF UsageAt(s, i, verb)
  THEN <<<<verb, At(s, SkipWs(s, i + 1)).v>>>> \o UsageKeys(s, SkipWs(s, i + 1) + 2, verb)
  ELSE UsageKeys(s, i + 1, verb)
analyze_data_used(line, line_num, datasets_used) ==
  AddAll(AddAll(AddAll(datasets_used, UsageKeys(line, 1, "SET"), line_num),
                UsageKeys(line, 1, "MERGE"), line_num),
         UsageKeys(line, 1, "UPDATE"), line_num)

\* analyze_procedures with an assignment for append: the last instance only
analyze_procedures_last_only(line, line_num, procedures_used) ==
  LET i == FirstPos(line, LAMBDA p : ProcAt(line, p))
  IN  IF i = 0 THEN procedures_used
      ELSE SetKey(procedures_used, ProcName(line, i),
                  <<[line |-> line_num, dataset |-> ProcDataset(line, i)]>>)

\* analyze_procedures: the first PROC statement of the line, one instance each time
analyze_procedures(line, line_num, procedures_used) ==
  LET i == FirstPos(line, LAMBDA p : ProcAt(line, p))
  IN  IF i = 0 THEN procedures_used
      ELSE AddTo(procedures_used, ProcName(line, i),
                 [line |-> line_num, dataset |-> ProcDataset(line, i)])

\* the exclusion sets of the macro-call scan
system_macros_class ==
  {"MACRO", "MEND", "LET", "IF", "DO", "END", "EVAL", "STR", "QUOTE", "SCAN",
   "SUBSTR", "INCLUDE"}
system_macros_func ==
  {"MACRO", "MEND", "LET", "IF", "THEN", "ELSE", "DO", "END", "EVAL", "STR", "QUOTE",
   "SCAN", "SUBSTR", "INCLUDE", "ARRAY", "PUT", "TO", "DOLOOP", "SYSFUNC",
   "SUM", "MEAN", "MIN", "MAX", "COUNT", "N", "NMISS", "ROUND", "CEIL", "FLOOR",
   "INT", "ABS", "LOG", "EXP", "SQRT", "SIN", "COS", "TAN", "RAND", "RANUNI",
   "NORMAL", "GAMMA", "BETA", "TRIM", "STRIP", "LEFT", "RIGHT", "LENGTH", "UPCASE",
   "LOWCASE", "PROPCASE", "COMPRESS", "TRANSLATE", "INDEX", "FIND", "CATS", "CATX",
   "CAT", "TODAY", "DATE", "DATETIME", "TIME", "DATEPART", "TIMEPART", "YEAR",
   "MONTH", "DAY", "WEEKDAY", "MDY", "YMD", "INTCK", "INTNX", "DATDIF", "JULDATE",
   "INPUT", "COALESCEC", "COALESCE", "IFC", "IFN", "MISSING"}
system_macros(im) == IF im = "class" THEN system_macros_class ELSE system_macros_func

\* re.findall(r'%([A-Z_][A-Z0-9_]*)\b', line) minus the exclusion set
RECURSIVE MacroCallNames(_, _)
MacroCallNames(im, s) ==
  IF s = <<>> THEN <<>>
  ELSE (IF Head(s).k = "pct" /\ Head(s).v \notin system_macros(im)
        THEN <<Head(s).v>> ELSE <<>>) \o MacroCallNames(im, Tail(s))

MacroDef(line_num, parameters, parent) ==
  [line |-> line_num, parameters |-> parameters, parent |-> parent, end_line |-> None]

\* %MEND\s*(\w*)?\s*;? : the name after %MEND at position m, "" when there is none
MendName(s, m) ==
  LET n == At(s, SkipWs(s, m + 1)) IN IF n.k \in {"id", "num"} THEN n.v ELSE ""

\* list.remove(x): the first occurrence of x leaves the list
RECURSIVE RemoveFirst(_, _)
RemoveFirst(stack, x) ==
  IF stack = <<>> THEN <<>>
  ELSE IF Head(stack) = x THEN Tail(stack)
  ELSE <<Head(stack)>> \o RemoveFirst(Tail(stack), x)
InSeq(stack, x) == \E i \in 1..Len(stack) : stack[i] = x

\* if 'end_line' not in macros_defined[name]: macros_defined[name]['end_line'] = n
SetEndOnce(macros_defined, name, line_num) ==
  IF macros_defined[name].end_line = None
  THEN [macros_defined EXCEPT ![name].end_line = line_num]
  ELSE macros_defined

\* func analyze_macros, definitions: the record, its parent, the push
macro_definition(line, line_num, macros_defined, macro_stack) ==
  LET i == FirstPos(line, LAMBDA p : MacroAtFunc(line, p))
  IN  IF i = 0
      THEN [macros_defined |-> macros_defined, macro_stack |-> macro_stack]
      ELSE [macros_defined |->
              SetKey(macros_defined, MacroName(line, i),
                     MacroDef(line_num, MacroParams("func", line, i),
                              IF macro_stack # <<>> THEN Top(macro_stack) ELSE NoneName)),
            macro_stack |-> Append(macro_stack, MacroName(line, i))]

\* %MEND with pop(0) for pop(): an unnamed %MEND ends the outermost open macro
macro_end_outermost(line, line_num, macros_defined, macro_stack) ==
  LET m == FirstPos(line, LAMBDA p : At(line, p).k = "pct" /\ At(line, p).v = "MEND")
      mend_name == MendName(line, m)
  IN  IF m = 0 \/ macro_stack = <<>>
      THEN [macros_defined |-> macros_defined, macro_stack |-> macro_stack]
      ELSE IF mend_name # ""
      THEN IF mend_name \in DOMAIN macros_defined
           THEN [macros_defined |-> SetEndOnce(macros_defined, mend_name, line_num),
                 macro_stack |->
                   IF InSeq(macro_stack, mend_name)
                   THEN RemoveFirst(macro_stack, mend_name) ELSE macro_stack]
           ELSE [macros_defined |-> macros_defined, macro_stack |-> macro_stack]
      ELSE [macros_defined |-> SetEndOnce(macros_defined, Head(macro_stack), line_num),
            macro_stack |-> PopFirst(macro_stack)]

\* func analyze_macros, %MEND: named or unnamed
macro_end(line, line_num, macros_defined, macro_stack) ==
  LET m == FirstPos(line, LAMBDA p : At(line, p).k = "pct" /\ At(line, p).v = "MEND")
      mend_name == MendName(line, m)
  IN  IF m = 0 \/ macro_stack = <<>>
      THEN [macros_defined |-> macros_defined, macro_stack |-> macro_stack]
      ELSE IF mend_name # ""
      THEN IF mend_name \in DOMAIN macros_defined
           THEN [macros_defined |-> SetEndOnce(macros_defined, mend_name, line_num),
                 macro_stack |->
                   IF InSeq(macro_stack, mend_name)
                   THEN RemoveFirst(macro_stack, mend_name) ELSE macro_stack]
           ELSE [macros_defined |-> macros_defined, macro_stack |-> macro_stack]
      ELSE [macros_defined |-> SetEndOnce(macros_defined, Top(macro_stack), line_num),
            macro_stack |-> PopLast(macro_stack)]

\* func analyze_macros(line, line_num, results, macro_stack)
analyze_macros_func(line, line_num, macros_defined, macros_called, macro_stack) ==
  LET d == macro_definition(line, line_num, macros_defined, macro_stack)
      e == macro_end(line, line_num, d.macros_defined, d.macro_stack)
  IN  [macros_defined |-> e.macros_defined,
       macros_called |-> AddAll(macros_called, MacroCallNames("func", line), line_num),
       macro_stack |-> e.macro_stack]

\* class _analyze_macros(line, line_num): no parent, no end line, no stack
analyze_macros_class(line, line_num, macros_defined, macros_called, macro_stack) ==
  LET i == FirstPos(line, LAMBDA p : MacroAtClass(line, p))
  IN  [macros_defined |->
         IF i = 0 THEN macros_defined
         ELSE SetKey(macros_defined, MacroName(line, i),
                     MacroDef(line_num, MacroParams("class", line, i), NoneName)),
       macros_called |-> AddAll(macros_called, MacroCallNames("class", line), line_num),
       macro_stack |-> macro_stack]

\* table_name.split('.') for the names of the catalogue
SplitDot(name) ==
  CASE name = "LIB.OUT2" -> <<"LIB", "OUT2">>
    [] name = "RAW.SRC" -> <<"RAW", "SRC">>
    [] name = "WORK.T2" -> <<"WORK", "T2">>
    [] name = "LIB.T3" -> <<"LIB", "T3">>
    [] OTHER -> <<name>>

\* include files: the operand of %INCLUDE at position i is one lexeme, a quoted
\* string or a name, as in every line of the catalogue
IncludeAt(s, i) == At(s, i).k = "pct" /\ At(s, i).v = "INCLUDE"
Quoted(v) == "'" \o v \o "'"

\* class _analyze_include_files: three patterns, every match is recorded
\*   %INCLUDE\s+["\']([^"\']+)["\']   the text between the quotes
\*   %INCLUDE\s+([A-Z_][A-Z0-9_]*)    the name, up to its first dot
\*   %INCLUDE\s+([^\s;]+)             the operand as written, quotes included
IncludeKeysClass(s, i) ==
  LET j == SkipWs(s, i + 1)
      op == At(s, j)
  IN  IF At(s, i + 1).k # "ws" THEN <<>>
      ELSE IF op.k = "str" THEN <<op.v, Quoted(op.v)>>
      ELSE IF op.k \in {"id", "qid"} THEN <<Head(SplitDot(op.v)), op.v>>
      ELSE <<>>
\* func analyze_include_files: one pattern with two alternatives,
\*   %INCLUDE\s*["\']([^"\']+)["\'] | %INCLUDE\s*([^;]+);?
\* the file name stripped of quotes, semicolon and blanks, kept when not empty
IncludeKeysFunc(s, i) ==
  LET op == At(s, SkipWs(s, i + 1))
  IN  IF op.k \in {"str", "id", "qid"} /\ op.v # "" THEN <<op.v>> ELSE <<>>
RECURSIVE IncludeKeys(_, _, _)
IncludeKeys(im, s, i) ==
  IF i > Len(s) THEN <<>>
  ELSE (IF ~IncludeAt(s, i) THEN <<>>
        ELSE IF im = "class" THEN IncludeKeysClass(s, i) ELSE IncludeKeysFunc(s, i))
       \o IncludeKeys(im, s, i + 1)
analyze_include_files(im, line, line_num, include_files) ==
  AddAll(include_files, IncludeKeys(im, line, 1), line_num)

(* ----------------------- 4.5 SQL query collector ---------------------- *)
\* ' '.join(parts)
RECURSIVE Join(_)
Join(parts) ==
  IF parts = <<>> THEN <<>>
  ELSE IF Len(parts) = 1 THEN Head(parts)
  ELSE Head(parts) \o <<W>> \o Join(Tail(parts))

\* re.search(r'^\s*PROC\s+SQL', line_upper)
IsProcSql(s) ==
  LET i == SkipWs(s, 1)
  IN  IsWord(At(s, i), "PROC") /\ At(s, i + 1).k = "ws"
        /\ IsWord(At(s, SkipWs(s, i + 1)), "SQL")

\* 'QUIT;' in line_upper or 'RUN;' in line_upper, on the raw line: the text of
\* a comment is searched as well
RawHasTerminator(s) ==
  \/ ContainsWordSemi(s, "QUIT")
  \/ ContainsWordSemi(s, "RUN")
  \/ \E i \in 1..Len(s) : CommentHas(s[i], "RUN;") \/ CommentHas(s[i], "QUIT;")

\* CREATE\s+(?:OR\s+REPLACE\s+)?TABLE\s+([A-Z_][A-Z0-9_.]*), ignoring case:
\* the position of the table name for CREATE at position i, 0 when no match
CreateTableName(s, i) ==
  LET a == SkipWs(s, i + 1)
      b == SkipWs(s, a + 1)
      c == SkipWs(s, b + 1)
      d == SkipWs(s, c + 1)
      plain == IsWord(At(s, a), "TABLE") /\ At(s, a + 1).k = "ws" /\ IsDsName(At(s, b))
      replace == IsWord(At(s, a), "OR") /\ At(s, a + 1).k = "ws"
                   /\ IsWord(At(s, b), "REPLACE") /\ At(s, b + 1).k = "ws"
                   /\ IsWord(At(s, c), "TABLE") /\ At(s, c + 1).k = "ws"
                   /\ IsDsName(At(s, d))
  IN  IF ~(IsWord(At(s, i), "CREATE") /\ At(s, i + 1).k = "ws") THEN 0
      ELSE IF plain THEN b
      ELSE IF replace THEN d
      ELSE 0

\* extract_created_tables_from_sql: every match, left to right, in upper case
RECURSIVE CreatedFrom(_, _)
CreatedFrom(s, i) ==
  IF i > Len(s) THEN <<>>
  ELSE IF CreateTableName(s, i) # 0
  THEN <<s[CreateTableName(s, i)].v>> \o CreatedFrom(s, CreateTableName(s, i) + 1)
  ELSE CreatedFrom(s, i + 1)
extract_created_tables_from_sql(sql_text) == CreatedFrom(sql_text, 1)

\* determine_dataset_type without the test for the WORK library
determine_dataset_type_no_work(table_name) ==
  IF Len(SplitDot(table_name)) = 1 THEN "Temporary" ELSE "Permanent"

determine_dataset_type(table_name) ==
  LET parts == SplitDot(table_name)
  IN  IF Len(parts) = 1 THEN "Temporary"
      ELSE IF parts[1] \in {"WORK", ""} THEN "Temporary"
      ELSE "Permanent"

SqlQuery(start, end, query, created) ==
  [start_line |-> start, end_line |-> end, query |-> query,
   created_table_name |-> IF created # <<>> THEN Head(created) ELSE "None",
   created_table_type |->
     IF created # <<>> THEN determine_dataset_type(Head(created)) ELSE "N/A"]

\* a PROC SQL line that leaves the buffer as it is
sql_block_open_keep_buffer(st, line_num) ==
  [st EXCEPT !.in_sql_block = TRUE, !.sql_block_start = line_num]

\* a PROC SQL line: the collector enters the block and empties its buffer
sql_block_open(st, line_num) ==
  [st EXCEPT !.in_sql_block = TRUE, !.sql_block_start = line_num,
             !.current_sql_query = <<>>]

\* the collector without the test of the buffer: every block left emits a record
analyze_snowflake_references_always_emits(line, line_num, snowflake_queries, st) ==
  LET line_upper == upper(line)
  IN  IF IsProcSql(line_upper)
      THEN [snowflake_queries |-> snowflake_queries, state |-> sql_block_open(st, line_num)]
      ELSE IF st.in_sql_block /\ RawHasTerminator(line_upper)
      THEN [snowflake_queries |->
              Append(snowflake_queries,
                     SqlQuery(st.sql_block_start, line_num, Join(st.current_sql_query),
                              extract_created_tables_from_sql(Join(st.current_sql_query)))),
            state |-> [st EXCEPT !.in_sql_block = FALSE, !.current_sql_query = <<>>,
                                 !.sql_block_start = None]]
      ELSE IF st.in_sql_block /\ strip(line) # <<>>
              /\ ~IsProcSql(line_upper) /\ ~RawHasTerminator(line_upper)
      THEN [snowflake_queries |-> snowflake_queries,
            state |-> [st EXCEPT !.current_sql_query = Append(@, strip(line))]]
      ELSE [snowflake_queries |-> snowflake_queries, state |-> st]

\* the collector with insert(0, ...) for append: the buffer grows at its front
analyze_snowflake_references_prepend(line, line_num, snowflake_queries, st) ==
  LET line_upper == upper(line)
  IN  IF IsProcSql(line_upper)
      THEN [snowflake_queries |-> snowflake_queries, state |-> sql_block_open(st, line_num)]
      ELSE IF st.in_sql_block /\ RawHasTerminator(line_upper)
      THEN [snowflake_queries |->
              IF st.current_sql_query # <<>>
              THEN Append(snowflake_queries,
                     SqlQuery(st.sql_block_start, line_num, Join(st.current_sql_query),
                              extract_created_tables_from_sql(Join(st.current_sql_query))))
              ELSE snowflake_queries,
            state |-> [st EXCEPT !.in_sql_block = FALSE, !.current_sql_query = <<>>,
                                 !.sql_block_start = None]]
      ELSE IF st.in_sql_block /\ strip(line) # <<>>
      THEN [snowflake_queries |-> snowflake_queries,
            state |-> [st EXCEPT !.current_sql_query = <<strip(line)>> \o @]]
      ELSE [snowflake_queries |-> snowflake_queries, state |-> st]

\* analyze_snowflake_references(line, line_num, results, state), the PROC SQL
\* collector; line is the raw line
analyze_snowflake_references(line, line_num, snowflake_queries, st) ==
  LET line_upper == upper(line)
  IN  IF IsProcSql(line_upper)
      THEN [snowflake_queries |-> snowflake_queries, state |-> sql_block_open(st, line_num)]
      ELSE IF st.in_sql_block /\ RawHasTerminator(line_upper)
      THEN [snowflake_queries |->
              IF st.current_sql_query # <<>>
              THEN Append(snowflake_queries,
                     SqlQuery(st.sql_block_start, line_num, Join(st.current_sql_query),
                              extract_created_tables_from_sql(Join(st.current_sql_query))))
              ELSE snowflake_queries,
            state |-> [st EXCEPT !.in_sql_block = FALSE, !.current_sql_query = <<>>,
                                 !.sql_block_start = None]]
      ELSE IF st.in_sql_block /\ strip(line) # <<>>
              /\ ~IsProcSql(line_upper) /\ ~RawHasTerminator(line_upper)
      THEN [snowflake_queries |-> snowflake_queries,
            state |-> [st EXCEPT !.current_sql_query = Append(@, strip(line))]]
      ELSE [snowflake_queries |-> snowflake_queries, state |-> st]

(* ----------------------------- timeframes ----------------------------- *)
\* 'timeframe_start': None, 'timeframe_end': None
NoTimeframe == [timestamp |-> NoneName, line |-> None]

\* the timestamp literals of the catalogue and the first of the four patterns
\* of _analyze_timeframes (yyyy-mm-dd, dd/mm/yyyy, yyyy/mm/dd, dd-mm-yyyy) each matches
TsPattern(v) ==
  CASE v = "2024-06-30 12:00:00" -> 1
    [] v = "2024-01-01 00:00:00" -> 1
    [] v = "01/02/2023 00:00:00" -> 2
    [] OTHER -> 0
\* the place of a timestamp literal in the order of str
TsRank(v) ==
  CASE v = "01/02/2023 00:00:00" -> 1
    [] v = "2024-01-01 00:00:00" -> 2
    [] v = "2024-06-30 12:00:00" -> 3
    [] OTHER -> 0
\* a < b on str
TsLess(a, b) == TsRank(a) < TsRank(b)

\* re.findall(pattern, line) on the stripped raw line: the literals of one
\* pattern from left to right, those inside comments included
IsTimestamp(lx, pattern) == lx.k \in {"ts", "cmt"} /\ TsPattern(lx.v) = pattern
RECURSIVE FindTimestamps(_, _)
FindTimestamps(line, pattern) ==
  IF line = <<>> THEN <<>>
  ELSE (IF IsTimestamp(Head(line), pattern) THEN <<Head(line).v>> ELSE <<>>)
         \o FindTimestamps(Tail(line), pattern)
\* for pattern in timestamp_patterns: timestamps = re.findall(pattern, line)
Timestamps(line) ==
  FindTimestamps(line, 1) \o FindTimestamps(line, 2) \o FindTimestamps(line, 3)
    \o FindTimestamps(line, 4)

\* the update of one timestamp that replaces the end on >= in place of >
timeframe_update_last_wins(timestamp, line_num, tf) ==
  [timeframe_start |->
     IF tf.timeframe_start = NoTimeframe \/ TsLess(timestamp, tf.timeframe_start.timestamp)
     THEN [timestamp |-> timestamp, line |-> line_num] ELSE tf.timeframe_start,
   timeframe_end |->
     IF tf.timeframe_end = NoTimeframe \/ ~TsLess(timestamp, tf.timeframe_end.timestamp)
     THEN [timestamp |-> timestamp, line |-> line_num] ELSE tf.timeframe_end]

\* the body of the loop of _analyze_timeframes for one timestamp
timeframe_update(timestamp, line_num, tf) ==
  [timeframe_start |->
     IF tf.timeframe_start = NoTimeframe \/ TsLess(timestamp, tf.timeframe_start.timestamp)
     THEN [timestamp |-> timestamp, line |-> line_num] ELSE tf.timeframe_start,
   timeframe_end |->
     IF tf.timeframe_end = NoTimeframe \/ TsLess(tf.timeframe_end.timestamp, timestamp)
     THEN [timestamp |-> timestamp, line |-> line_num] ELSE tf.timeframe_end]

\* class _analyze_timeframes(original_line, line_num)
RECURSIVE analyze_timeframes(_, _, _)
analyze_timeframes(timestamps, line_num, tf) ==
  IF timestamps = <<>> THEN tf
  ELSE analyze_timeframes(Tail(timestamps), line_num,
                          timeframe_update(Head(timestamps), line_num, tf))

(* --------------------------- 4.6 aggregator --------------------------- *)
Count(d) == Cardinality(DOMAIN d)

\* _calculate_complexity_metrics that counts from line 0
calculate_complexity_metrics_off_by_one(r) ==
  [total_functions |-> Len(r.function_blocks),
   total_datasets |-> Count(r.datasets_created) + Count(r.datasets_used),
   total_procedures |-> Count(r.procedures_used),
   total_macros |-> Count(r.macros_defined) + Count(r.macros_called),
   total_includes |-> Count(r.include_files),
   complexity_score |->
     Len(r.function_blocks) + Count(r.procedures_used)
       + (Count(r.macros_defined) + Count(r.macros_called)) + Count(r.include_files),
   total_lines |-> Count(r.line_analysis) + 1]

\* class _calculate_complexity_metrics
calculate_complexity_metrics_class(r) ==
  [total_functions |-> Len(r.function_blocks),
   total_datasets |-> Count(r.datasets_created) + Count(r.datasets_used),
   total_procedures |-> Count(r.procedures_used),
   total_macros |-> Count(r.macros_defined) + Count(r.macros_called),
   total_includes |-> Count(r.include_files),
   complexity_score |->
     Len(r.function_blocks) + Count(r.procedures_used)
       + (Count(r.macros_defined) + Count(r.macros_called)) + Count(r.include_files),
   total_lines |-> Count(r.line_analysis)]

\* func calculate_complexity_metrics
calculate_complexity_metrics_func(r) ==
  [total_functions |-> Len(r.function_blocks),
   total_datasets |-> Count(r.datasets_created) + Count(r.datasets_used),
   total_procedures |-> Count(r.procedures_used),
   total_macros |-> Count(r.macros_defined),
   total_includes |-> Count(r.include_files),
   total_lines |-> Count(r.line_analysis)]

(* ------------------------------ driver -------------------------------- *)
\* the result store of reset() and of initialize_analysis(); the fact tables
\* of the extractors that are not modelled are left out
EmptyResults ==
  [function_blocks |-> <<>>, datasets_created |-> EmptyDict, datasets_used |-> EmptyDict,
   procedures_used |-> EmptyDict, macros_defined |-> EmptyDict,
   macros_called |-> EmptyDict, include_files |-> EmptyDict,
   snowflake_queries |-> <<>>, code_complexity |-> EmptyDict, line_analysis |-> EmptyDict,
   timeframe_start |-> NoTimeframe, timeframe_end |-> NoTimeframe]

\* the carry-over state: self.current_blocks of the class, the state dict of
\* initialize_analysis()
EmptyState ==
  [current_blocks |-> <<>>, in_sql_block |-> FALSE, current_sql_query |-> <<>>,
   sql_block_start |-> None, macro_stack |-> <<>>]

\* reset() that keeps the result store of the analysis before
reset_keeps_results(old) == [results |-> old.results, state |-> EmptyState]

\* class reset(): a new result store, a new open-block list
reset(old) == [results |-> EmptyResults, state |-> EmptyState]

\* func initialize_analysis(): results and state are made anew by every call
initialize_analysis == [results |-> EmptyResults, state |-> EmptyState]

LineInfo(original, cleaned) ==
  [original |-> original, cleaned |-> cleaned, type |-> classify_line(cleaned)]

\* the calls of a line with check_block_end moved before check_block_start
Extract_close_first(im, cleaned, raw, line_num, r, st) ==
  LET ended == check_block_end(im, cleaned, line_num, st.current_blocks, r.function_blocks)
      blocks1 == check_block_start(im, cleaned, line_num, ended.current_blocks)
      mac == IF im = "class"
             THEN analyze_macros_class(cleaned, line_num, r.macros_defined,
                                       r.macros_called, st.macro_stack)
             ELSE analyze_macros_func(cleaned, line_num, r.macros_defined,
                                      r.macros_called, st.macro_stack)
      st1 == [st EXCEPT !.current_blocks = blocks1, !.macro_stack = mac.macro_stack]
      sql == IF im = "class"
             THEN [snowflake_queries |-> r.snowflake_queries, state |-> st1]
             ELSE analyze_snowflake_references(raw, line_num, r.snowflake_queries, st1)
      tf == IF im = "class"
            THEN analyze_timeframes(Timestamps(strip(raw)), line_num,
                   [timeframe_start |-> r.timeframe_start, timeframe_end |-> r.timeframe_end])
            ELSE [timeframe_start |-> r.timeframe_start, timeframe_end |-> r.timeframe_end]
  IN  [results |->
         [r EXCEPT !.datasets_created = analyze_data_created(cleaned, line_num, @),
                   !.datasets_used = analyze_data_used(cleaned, line_num, @),
                   !.procedures_used = analyze_procedures(cleaned, line_num, @),
                   !.include_files = analyze_include_files(im, cleaned, line_num, @),
                   !.macros_defined = mac.macros_defined,
                   !.macros_called = mac.macros_called,
                   !.snowflake_queries = sql.snowflake_queries,
                   !.timeframe_start = tf.timeframe_start,
                   !.timeframe_end = tf.timeframe_end,
                   !.function_blocks = ended.function_blocks],
       state |-> sql.state]

\* the extractors that both implementations run on a non-empty cleaned line,
\* between check_block_start and check_block_end
Extract(im, cleaned, raw, line_num, r, st) ==
  LET blocks1 == check_block_start(im, cleaned, line_num, st.current_blocks)
      mac == IF im = "class"
             THEN analyze_macros_class(cleaned, line_num, r.macros_defined,
                                       r.macros_called, st.macro_stack)
             ELSE analyze_macros_func(cleaned, line_num, r.macros_defined,
                                      r.macros_called, st.macro_stack)
      st1 == [st EXCEPT !.current_blocks = blocks1, !.macro_stack = mac.macro_stack]
      sql == IF im = "class"
             THEN [snowflake_queries |-> r.snowflake_queries, state |-> st1]
             ELSE analyze_snowflake_references(raw, line_num, r.snowflake_queries, st1)
      tf == IF im = "class"
            THEN analyze_timeframes(Timestamps(strip(raw)), line_num,
                   [timeframe_start |-> r.timeframe_start, timeframe_end |-> r.timeframe_end])
            ELSE [timeframe_start |-> r.timeframe_start, timeframe_end |-> r.timeframe_end]
      ended == check_block_end(im, cleaned, line_num, sql.state.current_blocks,
                               r.function_blocks)
  IN  [results |->
         [r EXCEPT !.datasets_created = analyze_data_created(cleaned, line_num, @),
                   !.datasets_used = analyze_data_used(cleaned, line_num, @),
                   !.procedures_used = analyze_procedures(cleaned, line_num, @),
                   !.include_files = analyze_include_files(im, cleaned, line_num, @),
                   !.macros_defined = mac.macros_defined,
                   !.macros_called = mac.macros_called,
                   !.snowflake_queries = sql.snowflake_queries,
                   !.timeframe_start = tf.timeframe_start,
                   !.timeframe_end = tf.timeframe_end,
                   !.function_blocks = ended.function_blocks],
       state |-> [sql.state EXCEPT !.current_blocks = ended.current_blocks]]

\* class _analyze_single_line: an empty cleaned line returns before its record
analyze_single_line_class(line, line_num, r, st) ==
  LET original_line == strip(line)
      cleaned_line == strip(clean_line(line))
  IN  IF cleaned_line = <<>>
      THEN [results |-> r, state |-> st]
      ELSE Extract("class", cleaned_line, line, line_num,
                   [r EXCEPT !.line_analysis =
                      SetKey(@, line_num, LineInfo(original_line, cleaned_line))],
                   st)

\* func analyze_single_line: the record first, then the empty-line return
analyze_single_line_func(line, line_num, r, st) ==
  LET original_line == strip(line)
      cleaned_line == strip(clean_line(line))
      r1 == [r EXCEPT !.line_analysis =
               SetKey(@, line_num, LineInfo(original_line, cleaned_line))]
  IN  IF cleaned_line = <<>>
      THEN [results |-> r1, state |-> st]
      ELSE Extract("func", cleaned_line, line, line_num, r1, st)

analyze_single_line(im, line, line_num, r, st) ==
  IF im = "class" THEN analyze_single_line_class(line, line_num, r, st)
  ELSE analyze_single_line_func(line, line_num, r, st)

\* the end of analyze_lines: finalize_open_blocks, then the complexity record
\* the end of analyze_lines with a record written for the open PROC SQL block
finish_flushes_sql(im, total_lines, r, st) ==
  LET f == finalize_open_blocks(total_lines, st.current_blocks, r.function_blocks)
      r1 == [r EXCEPT !.function_blocks = f.function_blocks,
                      !.snowflake_queries =
                         IF st.in_sql_block /\ st.current_sql_query # <<>>
                         THEN Append(@, SqlQuery(st.sql_block_start, total_lines,
                                                 Join(st.current_sql_query), <<>>))
                         ELSE @]
  IN  [results |->
         [r1 EXCEPT !.code_complexity =
            IF im = "class" THEN calculate_complexity_metrics_class(r1)
            ELSE calculate_complexity_metrics_func(r1)],
       state |-> [st EXCEPT !.current_blocks = f.current_blocks]]

finish(im, total_lines, r, st) ==
  LET f == finalize_open_blocks(total_lines, st.current_blocks, r.function_blocks)
      r1 == [r EXCEPT !.function_blocks = f.function_blocks]
  IN  [results |->
         [r1 EXCEPT !.code_complexity =
            IF im = "class" THEN calculate_complexity_metrics_class(r1)
            ELSE calculate_complexity_metrics_func(r1)],
       state |-> [st EXCEPT !.current_blocks = f.current_blocks]]

\* the loop of analyze_lines over a whole input, from a new result store
RECURSIVE Scan(_, _)
Scan(im, ls) ==
  IF ls = <<>> THEN [results |-> EmptyResults, state |-> EmptyState]
  ELSE LET before == Scan(im, SubSeq(ls, 1, Len(ls) - 1))
       IN  analyze_single_line(im, Lex(ls[Len(ls)]), Len(ls), before.results, before.state)

\* analyze_lines(lines) on a new analyzer
analyze_lines(im, ls) ==
  LET s == Scan(im, ls) IN finish(im, Len(ls), s.results, s.state)

(* ------------------------- inputs of the model ------------------------ *)
\* an element of the list of lines that is no str, such as None: its strip()
\* raises AttributeError, the first statement of analyze_single_line
NotAStr == "<not a str>"
Raises(raw) == raw = NotAStr

Profiles == {"blocks", "macros", "sql", "sqlrec", "kinds", "errors", "closers", "calls", "sqltext", "sqlpair", "sqlblocks", "procs", "extents", "times", "rerun"}

\* the lines an input is drawn from
Catalogue(p) ==
  CASE p = "blocks" ->
         {"", "DATA OUT1 LIB.OUT2;", "data out1; run;", "  SET IN1;",
          "PROC SORT DATA=X;", "RUN;", "RUN ;", "%MACRO FOO(X);", "%MEND;"}
    [] p = "macros" ->
         {"* NOTE;", "%MACRO FOO(X);", "%MACRO BAR(Y);", "%MACRO FOO;",
          "%MEND FOO;", "%MEND BAR;", "%MEND;"}
    [] p = "sql" ->
         {"/* C */", "PROC SQL;", "/* C */ PROC SQL;",
          "CREATE TABLE T1 AS SELECT * FROM RAW.SRC;", "select 1 /* RUN; */",
          "QUIT;", "DATA OUT1;"}
    [] p = "sqlrec" ->
         {"PROC SQL;", "CREATE TABLE T1 AS SELECT * FROM RAW.SRC;",
          "create table work.t2 as", "CREATE OR REPLACE TABLE LIB.T3 AS",
          "SELECT * FROM T1;", "QUIT;"}
    [] p = "kinds" ->
         {"", "%INCLUDE 'a.sas';", "%INCLUDE MYLIB;", "DATA OUT1;",
          "PROC PRINT DATA=X; RUN;", "%MACRO FOO(X);", "%MACRO FOO;", "%FOO(1);",
          "%MEND;",
          "LIBNAME MYLIB 'path';", "ODS HTML;", "RUN;", "X=1;"}
    [] p = "errors" -> {"", "DATA OUT1;", "%MACRO FOO(X);", "X=1;", "RUN;", NotAStr}
    [] p = "closers" ->
         {"DATA OUT1;", "data out1; run;", "PROC SORT DATA=X;", "%MACRO FOO(X);",
          "RUN;", "RUN; QUIT;", "RUN; %MEND;"}
    [] p = "calls" ->
         {"%LET X=1;", "%LET D=%SYSFUNC(X);", "%IF X=1 %THEN %DO;", "%FOO(1);",
          "%MACRO FOO(X);", "%MEND;", "%INCLUDE MYLIB;"}
    [] p = "sqltext" ->
         {"PROC SQL;", "/* C */", "/* C */ PROC SQL;", "create table work.t2 as",
          "SELECT * FROM T1;", "QUIT;"}
    [] p = "procs" ->
         {"PROC SORT DATA=X;", "PROC SQL;", "PROC PRINT DATA=X; RUN;",
          "RUN; PROC SORT DATA=X;", "RUN;", "DATA OUT1;"}
    [] p = "sqlpair" -> {"PROC SQL;", "/* C */", "SELECT * FROM T1;", "QUIT;"}
    [] p = "sqlblocks" ->
         {"PROC SQL;", "PROC SQL; QUIT;", "SELECT * FROM T1;", "DATA OUT1;", "RUN ;",
          "%MEND;", "QUIT;"}
    [] p = "extents" ->
         {"%MACRO FOO(X);", "%MACRO BAR(Y);", "DATA OUT1;", "RUN;", "%MEND;", "%MEND FOO;"}
    [] p = "times" ->
         {"X=1;", "T=2024-06-30 12:00:00;", "T=2024-01-01 00:00:00;",
          "T=01/02/2023 00:00:00;", "A=2024-06-30 12:00:00 B=01/02/2023 00:00:00;",
          "/* 2024-01-01 00:00:00 */", "X=1; /* 01/02/2023 00:00:00 */"}
    [] p = "rerun" ->
         {"DATA OUT1;", "PROC SQL;", "select 1 /* RUN; */", "%MACRO FOO(X);", "RUN;"}

Impls(p) ==
  IF p \in {"sql", "sqlrec", "sqltext", "sqlpair", "sqlblocks"} THEN {"func"}
  ELSE IF p = "times" THEN {"class"}
  ELSE {"class", "func"}
\* the longest input of a profile
LinesOf(p) ==
  IF p = "sqlpair" THEN MaxLines + 2 ELSE
  IF p \in {"sqlrec", "sqltext"} THEN MaxLines + 1 ELSE IF p = "kinds" THEN MaxLines - 1 ELSE MaxLines
RunsOf(p) == IF p = "rerun" THEN MaxRuns ELSE 1

\* how an analysis is entered: analyze_lines on a list of lines, or
\* analyze_file on a path that is missing, cannot be read, or can be read
Sources(p) ==
  IF p = "errors" THEN {"lines", "missing", "unreadable", "readable"} ELSE {"lines"}

\* analyze_file without the test os.path.exists: a missing path reads as no lines
analyze_file_missing_as_empty(im, src) ==
  IF src = "unreadable" THEN "None" ELSE "analyze_lines"

\* analyze_file(file_path) up to the call of analyze_lines: "None" when the
\* path does not exist or open() raises, "analyze_lines" when the lines are read
analyze_file(im, src) ==
  IF src = "missing" THEN "None"
  ELSE IF src = "unreadable" THEN "None"
  ELSE "analyze_lines"

(* ------------------------------ actions ------------------------------- *)
\* the analyzer as constructed: __init__ calls reset()
InitOf(p) ==
  /\ profile = p
  /\ impl \in Impls(p)
  /\ source = "lines"
  /\ pc = "idle"
  /\ run = 0
  /\ lines = <<>>
  /\ results = EmptyResults
  /\ state = EmptyState

Init == \E p \in Profiles : InitOf(p)

\* analyze_lines is entered: the class resets itself, the function makes a
\* new result store and state
Start ==
  /\ pc \in {"idle", "done", "failed", "raised"}
  /\ run < RunsOf(profile)
  /\ \E src \in Sources(profile) :
       /\ source' = src
       /\ IF src # "lines" /\ analyze_file(impl, src) = "None"
          THEN /\ pc' = "failed"
               /\ UNCHANGED <<results, state>>
          ELSE /\ pc' = "scan"
               /\ LET fresh == IF impl = "class"
                               THEN reset([results |-> results, state |-> state])
                               ELSE initialize_analysis
                  IN  /\ results' = fresh.results
                      /\ state' = fresh.state
  /\ run' = run + 1
  /\ lines' = <<>>
  /\ UNCHANGED <<impl, profile>>

\* one turn of the loop over enumerate(lines, 1)
AnalyzeSingleLine ==
  /\ pc = "scan"
  /\ Len(lines) < LinesOf(profile)
  /\ \E raw \in Catalogue(profile) :
       /\ Raises(raw) => source = "lines"
       /\ lines' = Append(lines, raw)
       /\ IF Raises(raw)
          THEN \* func: except Exception: print a warning, continue;
               \* class: no handler, the exception leaves analyze_lines
               /\ pc' = IF impl = "func" THEN "scan" ELSE "raised"
               /\ UNCHANGED <<results, state>>
          ELSE LET out == analyze_single_line(impl, Lex(raw), Len(lines) + 1,
                                              results, state)
               IN  /\ results' = out.results
                   /\ state' = out.state
                   /\ pc' = pc
  /\ UNCHANGED <<impl, profile, source, run>>

\* the input is exhausted: finalization and aggregation, the result is returned
Finish ==
  /\ pc = "scan"
  /\ LET out == finish(impl, Len(lines), results, state)
     IN  /\ results' = out.results
         /\ state' = out.state
  /\ pc' = "done"
  /\ UNCHANGED <<impl, profile, source, run, lines>>

Next == Start \/ AnalyzeSingleLine \/ Finish

Spec == Init /\ [][Next]_vars
SpecBlocks == InitOf("blocks") /\ [][Next]_vars
SpecMacros == InitOf("macros") /\ [][Next]_vars
SpecSql == InitOf("sql") /\ [][Next]_vars
SpecSqlRec == InitOf("sqlrec") /\ [][Next]_vars
SpecKinds == InitOf("kinds") /\ [][Next]_vars
SpecErrors == InitOf("errors") /\ [][Next]_vars
SpecClosers == InitOf("closers") /\ [][Next]_vars
SpecCalls == InitOf("calls") /\ [][Next]_vars
SpecSqlText == InitOf("sqltext") /\ [][Next]_vars
SpecProcs == InitOf("procs") /\ [][Next]_vars
SpecSqlPair == InitOf("sqlpair") /\ [][Next]_vars
SpecSqlBlocks == InitOf("sqlblocks") /\ [][Next]_vars
SpecExtents == InitOf("extents") /\ [][Next]_vars
SpecTimes == InitOf("times") /\ [][Next]_vars
SpecRerun == InitOf("rerun") /\ [][Next]_vars

(* ====================================================================== *)
(*                               CLAIMS                                   *)
(* ====================================================================== *)
\* the cleaned text of input line k, as analyze_single_line computes it
Cleaned(k) == strip(clean_line(Lex(lines[k])))
Blocks == results.function_blocks
Open == state.current_blocks
LastLine == Len(lines)
\* the step that processes one more line
LineStep == pc = "scan" /\ pc' = "scan" /\ Len(lines') = Len(lines) + 1
Min(a, b) == IF a < b THEN a ELSE b

(* ------------------------------- C1 ----------------------------------- *)
\* C1: after analyze_lines on N lines, blank and comment-only lines included,
\* line_analysis has exactly the keys 1..N and the reported total_lines is N.
\* The class returns from a blank line before it writes the record.
C1_EveryLineClassified ==
  pc = "done" =>
    /\ DOMAIN results.line_analysis = 1..Len(lines)
    /\ results.code_complexity.total_lines = Len(lines)

(* ------------------------------- C2 ----------------------------------- *)
C2_Closed ==
  \A i \in 1..Len(Blocks) :
    Blocks[i].end_line # None /\ Blocks[i].end_line >= Blocks[i].start_line
C2_Finalized ==
  (pc = "scan" /\ pc' = "done") =>
    \A i \in 1..Len(Open) :
      \E j \in 1..Len(Blocks') : Blocks'[j] = [Open[i] EXCEPT !.end_line = Len(lines)]
\* C2: in the result every block has an end line, not before its start line,
\* and every block still open after the last line ends at the number of lines.
C2_BlocksEndAfterStart == [](pc = "done" => C2_Closed) /\ [][C2_Finalized]_vars

\* a block closed by a closing line and a block closed by finalization, whose
\* start is before the last line, which is no closing line
C2_Witness ==
  /\ pc = "done"
  /\ LastLine >= 1
  /\ ~IsBlockEnd(impl, Cleaned(LastLine))
  /\ \E i \in 1..Len(Blocks) :
        Blocks[i].end_line = LastLine /\ Blocks[i].start_line < LastLine
  /\ \E i \in 1..Len(Blocks) : Blocks[i].end_line < LastLine

(* ------------------------------- C3 ----------------------------------- *)
\* the block a line step has closed, when it has closed one
C3_ClosedNow == Blocks'[Len(Blocks')]
\* C3: closing is last-opened-first-closed: the block a closing line closes
\* has the greatest start line of the blocks open at that moment, so every
\* block left open was opened before it, and nothing else leaves the stack.
C3_LastOpenedFirstClosed ==
  [][(LineStep /\ Len(Blocks') > Len(Blocks)) =>
       /\ Len(Blocks') = Len(Blocks) + 1
       /\ C3_ClosedNow.end_line = Len(lines')
       /\ \A i \in 1..Len(Open) : Open[i].start_line <= C3_ClosedNow.start_line
       /\ \A i \in 1..Len(Open') : Open'[i].start_line < C3_ClosedNow.start_line
       /\ \A i \in 1..Len(Open') : i <= Len(Open) /\ Open'[i] = Open[i]]_vars

\* a block has been closed while two blocks opened before it are still open
C3_Witness ==
  /\ pc = "scan"
  /\ Len(Open) >= 2
  /\ Blocks # <<>>
  /\ Blocks[Len(Blocks)].end_line = LastLine
  /\ \A i \in 1..Len(Open) : Open[i].start_line < Blocks[Len(Blocks)].start_line

(* ------------------------------- C4 ----------------------------------- *)
Queries == results.snowflake_queries
\* the elements of a set of line numbers in increasing order
RECURSIVE Ascending(_)
Ascending(K) ==
  IF K = {} THEN <<>>
  ELSE LET m == CHOOSE x \in K : \A y \in K : x <= y
       IN  <<m>> \o Ascending(K \ {m})
\* the single-space join of the trimmed raw text of the lines K, in line order
TextOfLines(K) ==
  Join([i \in 1..Cardinality(K) |-> strip(Lex(lines[Ascending(K)[i]]))])
\* C4: every emitted SqlQuery has start_line <= end_line, starts at the line
\* of the PROC SQL statement that opened the block, ends at the line of the
\* terminator that closed it, and its text is built only from lines that lie
\* strictly between the two.
C4_SqlQuerySpan ==
  \A i \in 1..Len(Queries) :
    LET q == Queries[i] IN
      /\ q.start_line \in 1..Len(lines)
      /\ q.end_line \in 1..Len(lines)
      /\ q.start_line <= q.end_line
      /\ IsProcSql(upper(Lex(lines[q.start_line])))
      /\ RawHasTerminator(upper(Lex(lines[q.end_line])))
      /\ \A k \in (q.start_line + 1)..(q.end_line - 1) :
           Cleaned(k) # <<>> =>
             ~IsProcSql(upper(Lex(lines[k]))) /\ ~RawHasTerminator(upper(Lex(lines[k])))
      /\ \E K \in SUBSET ((q.start_line + 1)..(q.end_line - 1)) :
           K # {} /\ q.query = TextOfLines(K)

\* a query of two lines, opened by the second PROC SQL line of the input
C4_Witness ==
  \E i \in 1..Len(Queries) :
    /\ Queries[i].start_line > 1
    /\ Queries[i].end_line = Queries[i].start_line + 2
    /\ \E k \in 1..(Queries[i].start_line - 1) : IsProcSql(upper(Lex(lines[k])))

(* ------------------------------- C5 ----------------------------------- *)
\* C5: the result is a function of the input lines only: whatever was
\* analysed before on the same analyzer, a run returns the result and leaves
\* the carry-over state that a new analyzer gives for these lines.
C5_ResultDependsOnInputOnly ==
  pc = "done" =>
    /\ results = analyze_lines(impl, lines).results
    /\ state = analyze_lines(impl, lines).state

\* a second run on the same analyzer has returned blocks and macros
C5_Witness ==
  /\ pc = "done"
  /\ run = 2
  /\ Len(Blocks) >= 2
  /\ DOMAIN results.macros_defined # {}

(* ------------------------------- C6 ----------------------------------- *)
\* a line the classifier tags as a terminator (RUN; or QUIT;)
IsTerminatorLine(c) == classify_line(c) = "TERMINATOR"
\* a line that opens a block
OpensBlock(im, c) == check_block_start(im, c, 1, <<>>) # <<>>
\* a %MEND line
IsMendLine(c) == ContainsMend(c) /\ ~OpensBlock("class", c)
\* the last m lines are terminator lines
TerminatorRun(m) ==
  m <= Len(lines) /\ \A k \in (Len(lines) - m + 1)..Len(lines) : IsTerminatorLine(Cleaned(k))
C6_Frame ==
  LineStep =>
    LET c == strip(clean_line(Lex(lines'[Len(lines')]))) IN
      /\ ((IsTerminatorLine(c) \/ IsMendLine(c)) /\ Open = <<>>) =>
           (Open' = <<>> /\ Blocks' = Blocks)
      /\ (IsTerminatorLine(c) /\ Open = <<>>) => state'.macro_stack = state.macro_stack
      /\ (IsMendLine(c) /\ state.macro_stack = <<>>) =>
           (state'.macro_stack = <<>> /\ results'.macros_defined = results.macros_defined)
C6_MinClosed ==
  pc = "scan" =>
    \A m \in 1..Len(lines) :
      TerminatorRun(m) =>
        LET pre == Scan(impl, SubSeq(lines, 1, Len(lines) - m))
            k == Len(pre.state.current_blocks)
        IN  /\ Len(Blocks) = Len(pre.results.function_blocks) + Min(k, m)
            /\ Len(Open) = k - Min(k, m)
C7_EmptyInput ==
  (pc = "done" /\ lines = <<>>) =>
    /\ Blocks = <<>>
    /\ \A t \in {results.datasets_created, results.datasets_used, results.procedures_used,
                 results.macros_defined, results.macros_called, results.include_files,
                 results.line_analysis} : DOMAIN t = {}
    /\ Queries = <<>>
    /\ DOMAIN results.code_complexity # {}
    /\ \A f \in DOMAIN results.code_complexity : results.code_complexity[f] = 0

\* the empty input analysed by an analyzer that has analysed before
C7_Witness == pc = "done" /\ lines = <<>> /\ run = 2

(* ------------------------------- C8 ----------------------------------- *)
\* line k opens a DATA block
OpensData(k) == DataAt(Cleaned(k), SkipWs(Cleaned(k), 1))
\* no block is open before line s, and line e is a terminator line, the
\* first closing line after s, with no block-opening line between s and e
SimpleDataStep(s, e) ==
  /\ OpensData(s)
  /\ Scan(impl, SubSeq(lines, 1, s - 1)).state.current_blocks = <<>>
  /\ IsTerminatorLine(Cleaned(e))
  /\ IsBlockEnd(impl, Cleaned(e))
  /\ \A k \in (s + 1)..(e - 1) :
       ~IsBlockEnd(impl, Cleaned(k)) /\ ~OpensBlock(impl, Cleaned(k))
\* exactly one block starts at s: the DATA block that ends at e and carries
\* the datasets of the statement
OneDataBlock(s, e) ==
  /\ Cardinality({i \in 1..Len(Blocks) : Blocks[i].start_line = s}) = 1
  /\ \A i \in 1..Len(Open) : Open[i].start_line # s
  /\ \E i \in 1..Len(Blocks) :
       /\ Blocks[i].type = "DATA"
       /\ Blocks[i].start_line = s
       /\ Blocks[i].end_line = e
       /\ Blocks[i].datasets = DataNames(Cleaned(s), SkipWs(Cleaned(s), 1))
\* every dataset of a DATA block is recorded as created at the block's start
DataBlocksAreCreated ==
  \A i \in 1..Len(Blocks) :
    Blocks[i].type = "DATA" =>
      \A j \in 1..Len(Blocks[i].datasets) :
        /\ Blocks[i].datasets[j] \in DOMAIN results.datasets_created
        /\ InSeq(results.datasets_created[Blocks[i].datasets[j]], Blocks[i].start_line)
\* C8 as stated: a DATA statement at s with no block open before it, whose
\* first later closing line is a terminator at e with no block-opening line
\* between, yields exactly one block {DATA, s, e, datasets}; and the datasets
\* of every DATA block are keys of datasets_created that list its start line.
C8_DataStepBlock_Original ==
  /\ \A s \in 1..Len(lines) : \A e \in (s + 1)..Len(lines) :
       SimpleDataStep(s, e) => OneDataBlock(s, e)
  /\ DataBlocksAreCreated
\* C8 amended: the same, provided the DATA line itself holds no closing
\* marker (RUN;, QUIT;, %MEND); such a line closes its own block at s.
C8_DataStepBlock ==
  /\ \A s \in 1..Len(lines) : \A e \in (s + 1)..Len(lines) :
       (SimpleDataStep(s, e) /\ ~IsBlockEnd(impl, Cleaned(s))) => OneDataBlock(s, e)
  /\ DataBlocksAreCreated

\* a DATA statement that names two datasets, closed two lines later
C8_Witness ==
  \E s \in 1..Len(lines) :
    /\ s + 2 \in 1..Len(lines)
    /\ SimpleDataStep(s, s + 2)
    /\ ~IsBlockEnd(impl, Cleaned(s))
    /\ Len(DataNames(Cleaned(s), SkipWs(Cleaned(s), 1))) = 2
    /\ OneDataBlock(s, s + 2)

(* ----------------------------- C9, C10 -------------------------------- *)
\* the macro-definition position of a line, with or without a parameter list
DefAt(c) == FirstPos(c, LAMBDA p : MacroAtClass(c, p))
MendAt(c) == FirstPos(c, LAMBDA p : At(c, p).k = "pct" /\ At(c, p).v = "MEND")
\* the last occurrence of x leaves the stack: the innermost open macro x
RECURSIVE RemoveLast(_, _)
RemoveLast(stack, x) ==
  IF stack = <<>> THEN <<>>
  ELSE IF Top(stack) = x THEN PopLast(stack)
  ELSE Append(RemoveLast(PopLast(stack), x), Top(stack))
\* the macros whose definition has been processed and whose matching %MEND
\* has not, in definition order, after the first k lines
RECURSIVE OpenMacros(_)
OpenMacros(k) ==
  IF k = 0 THEN <<>>
  ELSE LET c == Cleaned(k)
           before == OpenMacros(k - 1)
           pushed == IF DefAt(c) # 0 THEN Append(before, MacroName(c, DefAt(c)))
                     ELSE before
       IN  IF MendAt(c) = 0 \/ pushed = <<>> THEN pushed
           ELSE IF MendName(c, MendAt(c)) # "" THEN RemoveLast(pushed, MendName(c, MendAt(c)))
           ELSE PopLast(pushed)
\* C9: the parent recorded for a macro definition is the innermost macro
\* open when the definition is processed, and None when no macro is open.
C9_ParentIsInnermostOpenMacro ==
  (impl = "func" /\ pc = "scan" /\ Len(lines) > 0 /\ DefAt(Cleaned(LastLine)) # 0) =>
    LET name == MacroName(Cleaned(LastLine), DefAt(Cleaned(LastLine)))
        open == OpenMacros(LastLine - 1)
    IN  /\ name \in DOMAIN results.macros_defined
        /\ results.macros_defined[name].line = LastLine
        /\ results.macros_defined[name].parent =
             IF open = <<>> THEN NoneName ELSE Top(open)

C10_StackInv == (impl = "func" /\ pc = "scan") => state.macro_stack = OpenMacros(LastLine)
C10_MendStep ==
  (impl = "func" /\ LineStep /\ MendAt(strip(clean_line(Lex(lines'[Len(lines')])))) # 0
     /\ DefAt(strip(clean_line(Lex(lines'[Len(lines')])))) = 0
     /\ state.macro_stack # <<>>) =>
    LET c == strip(clean_line(Lex(lines'[Len(lines')])))
        named == MendName(c, MendAt(c))
        closed == IF named # "" THEN named ELSE Top(state.macro_stack)
    IN  InSeq(state.macro_stack, closed) =>
          /\ state'.macro_stack = RemoveLast(state.macro_stack, closed)
          /\ results'.macros_defined[closed].end_line = Len(lines')
\* C10: the macro stack holds the open macros in definition order; a %MEND
\* NAME pops NAME and sets its end line to the current line, an unnamed
\* %MEND pops the innermost open macro and sets its end line likewise.
C10_MacroStackIsOpenMacros == []C10_StackInv /\ [][C10_MendStep]_vars

(* ------------------------------- C11 ---------------------------------- *)
\* the PROC SQL regions of the first k lines as section 4.5 describes them:
\* a PROC SQL line enters the region, a line containing QUIT; or RUN; ends it
RECURSIVE SqlRegions(_)
SqlRegions(k) ==
  IF k = 0 THEN [open |-> FALSE, ended |-> 0]
  ELSE LET b == SqlRegions(k - 1)
           l == upper(Lex(lines[k]))
       IN  IF IsProcSql(l) THEN [b EXCEPT !.open = TRUE]
           ELSE IF b.open /\ RawHasTerminator(l)
           THEN [open |-> FALSE, ended |-> b.ended + 1]
           ELSE b
C11_Leave ==
  (LineStep /\ state.in_sql_block /\ ~state'.in_sql_block) =>
    /\ Queries' # <<>>
    /\ Queries' = Append(Queries, Queries'[Len(Queries')])
    /\ Queries'[Len(Queries')].start_line = state.sql_block_start
    /\ Queries'[Len(Queries')].end_line = Len(lines')
C11_Count == pc = "scan" => Len(Queries) = SqlRegions(Len(lines)).ended
\* C11: whenever the collector leaves the in-block state on a line with
\* QUIT; or RUN;, exactly one SqlQuery with the start line of the PROC SQL
\* line and this end line is emitted; so there are as many records as PROC
\* SQL blocks that reached a terminator.
C11_OneRecordPerTerminatedBlock == []C11_Count /\ [][C11_Leave]_vars

(* ------------------------------- C12 ---------------------------------- *)
C12_NoRecordOfOpenBlock ==
  (pc = "done" /\ state.in_sql_block) =>
    \A i \in 1..Len(Queries) : Queries[i].end_line < state.sql_block_start
C12_EndKeepsRecords == (pc = "scan" /\ pc' = "done") => Queries' = Queries
\* C12: a PROC SQL block still open after the last line emits no SqlQuery:
\* the end of the run writes no record, the result is returned, and the
\* records emitted before are as they were.
C12_UnterminatedSqlDropped == []C12_NoRecordOfOpenBlock /\ [][C12_EndKeepsRecords]_vars

\* the run has ended inside a PROC SQL block with buffered lines, after an
\* earlier block has emitted its record
C12_Witness ==
  /\ pc = "done"
  /\ state.in_sql_block
  /\ state.current_sql_query # <<>>
  /\ Queries # <<>>

(* ------------------------------- C13 ---------------------------------- *)
\* the target of the CREATE TABLE statement of a line of the catalogue
LineTarget(raw) ==
  CASE raw = "CREATE TABLE T1 AS SELECT * FROM RAW.SRC;" -> "T1"
    [] raw = "create table work.t2 as" -> "WORK.T2"
    [] raw = "CREATE OR REPLACE TABLE LIB.T3 AS" -> "LIB.T3"
    [] OTHER -> ""
\* the library prefix of a table name of the catalogue, "" when it has none
LibraryPrefix(name) ==
  CASE name = "WORK.T2" -> "WORK"
    [] name = "LIB.T3" -> "LIB"
    [] name = "RAW.SRC" -> "RAW"
    [] OTHER -> ""
\* the CREATE TABLE targets of the lines of a query
TargetsOf(q) ==
  {LineTarget(lines[k]) : k \in (q.start_line + 1)..(q.end_line - 1)} \ {""}
\* C13: the created table of an emitted SqlQuery is the target of a CREATE
\* TABLE statement of its query text, none when there is no such statement;
\* its type is Temporary exactly when the name has no library prefix or the
\* prefix WORK, and Permanent for any other prefix.
C13_CreatedTable ==
  \A i \in 1..Len(Queries) :
    LET q == Queries[i] IN
      /\ TargetsOf(q) = {} => q.created_table_name = "None"
      /\ TargetsOf(q) # {} => q.created_table_name \in TargetsOf(q)
      /\ q.created_table_name # "None" =>
           /\ q.created_table_type \in {"Temporary", "Permanent"}
           /\ q.created_table_type = "Temporary"
                <=> LibraryPrefix(q.created_table_name) \in {"", "WORK"}

\* a query with two CREATE TABLE statements, the first into the WORK library
C13_Witness ==
  \E i \in 1..Len(Queries) :
    /\ Queries[i].created_table_name = "WORK.T2"
    /\ Queries[i].created_table_type = "Temporary"
    /\ "LIB.T3" \in TargetsOf(Queries[i])

(* ------------------------------- C14 ---------------------------------- *)
\* C14: the complexity record of a result contains complexity_score, the sum
\* of the block, procedure, macro and include counts of the same record; the
\* block count is the length of the block list, the other counts are numbers
\* of keys of their fact tables (the macro count: of macros_defined, with or
\* without those of macros_called).
C14_ComplexityScore ==
  pc = "done" =>
    LET c == results.code_complexity IN
      /\ "complexity_score" \in DOMAIN c
      /\ c.complexity_score =
           c.total_functions + c.total_procedures + c.total_macros + c.total_includes
      /\ c.total_functions = Len(Blocks)
      /\ c.total_procedures = Count(results.procedures_used)
      /\ c.total_includes = Count(results.include_files)
      /\ c.total_macros \in {Count(results.macros_defined),
                             Count(results.macros_defined) + Count(results.macros_called)}

(* ------------------------------- C17 ---------------------------------- *)
\* the tests of the classifier in the order of section 4.2, the last one
\* matching every line
ClassifierTests(c) ==
  <<StartsWithWordWs(c, "pct", "INCLUDE"), StartsWithWordWs(c, "id", "DATA"),
    StartsWithWordWs(c, "id", "PROC"), StartsWithWordWs(c, "pct", "MACRO"),
    At(c, SkipWs(c, 1)).k = "pct", StartsWithWordWs(c, "id", "LIBNAME"),
    StartsWithWordWs(c, "id", "ODS"),
    ContainsWordSemi(c, "RUN") \/ ContainsWordSemi(c, "QUIT"), TRUE>>
ClassifierTags ==
  <<"INCLUDE", "DATA_STEP", "PROCEDURE", "MACRO_DEF", "MACRO_CALL", "LIBRARY", "ODS",
    "TERMINATOR", "STATEMENT">>
FirstMatch(c) ==
  CHOOSE i \in 1..9 : ClassifierTests(c)[i] /\ \A j \in 1..(i - 1) : ~ClassifierTests(c)[j]
\* C17: every classified line has one tag, that of the first matching test in
\* the order include, data step, procedure, macro definition, macro call,
\* library, ODS, terminator, statement; so a macro definition line is never a
\* MACRO_CALL, and a line with RUN; or QUIT; is a TERMINATOR only when no
\* earlier test matches.
C17_ClassifierOrder ==
  \A k \in DOMAIN results.line_analysis :
    LET c == Cleaned(k)
        tag == results.line_analysis[k].type
    IN  /\ tag = ClassifierTags[FirstMatch(c)]
        /\ DefAt(c) = SkipWs(c, 1) /\ DefAt(c) # 0 => tag = "MACRO_DEF"
        /\ tag = "TERMINATOR" =>
             /\ ContainsWordSemi(c, "RUN") \/ ContainsWordSemi(c, "QUIT")
             /\ \A j \in 1..7 : ~ClassifierTests(c)[j]

\* a macro definition without parameter list, a procedure line that holds
\* RUN;, and a terminator line have been classified
C17_Witness ==
  \E i, j, k \in DOMAIN results.line_analysis :
    /\ lines[i] = "%MACRO FOO;" /\ results.line_analysis[i].type = "MACRO_DEF"
    /\ ContainsWordSemi(Cleaned(j), "RUN") /\ results.line_analysis[j].type = "PROCEDURE"
    /\ results.line_analysis[k].type = "TERMINATOR"

(* ------------------------------- C15 ---------------------------------- *)
\* the input with every raising element replaced by an empty line
Blanked(ls) == [i \in 1..Len(ls) |-> IF Raises(ls[i]) THEN "" ELSE ls[i]]
NotRaising == {k \in 1..Len(lines) : ~Raises(lines[k])}
\* the result of the input without the contribution of its raising lines
WithoutRaising ==
  LET ref == analyze_lines(impl, Blanked(lines)).results
      kept == [k \in DOMAIN ref.line_analysis \cap NotRaising |-> ref.line_analysis[k]]
  IN  [ref EXCEPT !.line_analysis = kept,
                  !.code_complexity = [@ EXCEPT !.total_lines = Cardinality(DOMAIN kept)]]
\* C15: when the processing of a line raises, the error is caught, the later
\* lines are analysed, finalization and aggregation run and a result is
\* returned: the result of the same input without that line's contribution.
C15_RaisingLineIsSkipped ==
  /\ pc # "raised"
  /\ (pc = "done" /\ source = "lines") => results = WithoutRaising

(* ------------------------------- C16 ---------------------------------- *)
\* C16: analyze_file on a missing or unreadable source returns None and has
\* analysed nothing; on a readable source, also one without lines or without
\* constructs, it returns a result structure; None is returned in no other case.
C16_FileOutcome ==
  /\ source \in {"missing", "unreadable"} => pc = "failed" /\ lines = <<>>
  /\ pc = "failed" => source \in {"missing", "unreadable"}
  /\ source = "readable" => pc \in {"scan", "done"}
  /\ (source = "readable" /\ pc = "done") =>
       /\ DOMAIN results.code_complexity # {}
       /\ results.code_complexity.total_functions = Len(Blocks)

\* analyze_file has returned None for a missing path
C16_Witness == source = "missing" /\ pc = "failed"

(* ------------------------------- C18 ---------------------------------- *)
\* line k is a macro definition line, with or without a parameter list
IsMacroDefLine(k) == DefAt(Cleaned(k)) # 0 /\ DefAt(Cleaned(k)) = SkipWs(Cleaned(k), 1)
HasParameterList(k) == At(Cleaned(k), SkipWs(Cleaned(k), DefAt(Cleaned(k)) + 1) + 1).k = "par"
\* C18: a macro definition line, with a parameter list or without, opens a
\* MACRO block that carries its name and records the name in macros_defined,
\* with empty parameter text when it has no list; a %MEND on the next line
\* closes this block and not an enclosing one.
C18_MacroDefinitionLine ==
  /\ (pc = "scan" /\ Len(lines) >= 1 /\ IsMacroDefLine(LastLine)) =>
       LET name == MacroName(Cleaned(LastLine), DefAt(Cleaned(LastLine))) IN
         /\ Open # <<>>
         /\ Top(Open).type = "MACRO"
         /\ Top(Open).macro_name = name
         /\ Top(Open).start_line = LastLine
         /\ name \in DOMAIN results.macros_defined
         /\ results.macros_defined[name].line = LastLine
         /\ ~HasParameterList(LastLine) =>
              Top(Open).parameters = "" /\ results.macros_defined[name].parameters = ""
  /\ (pc = "scan" /\ Len(lines) >= 2 /\ IsMacroDefLine(LastLine - 1)
        /\ IsMendLine(Cleaned(LastLine))) =>
       /\ Blocks # <<>>
       /\ Blocks[Len(Blocks)].type = "MACRO"
       /\ Blocks[Len(Blocks)].start_line = LastLine - 1
       /\ Blocks[Len(Blocks)].end_line = LastLine

(* ------------------------------- C19 ---------------------------------- *)
\* the closed blocks a step leaves in place, and the ones it appends
C19_Appended == SubSeq(Blocks', Len(Blocks) + 1, Len(Blocks'))
C19_Step ==
  /\ LineStep =>
       /\ Len(Blocks') <= Len(Blocks) + 1
       /\ SubSeq(Blocks', 1, Len(Blocks)) = Blocks
       /\ \A i \in 1..Len(C19_Appended) : C19_Appended[i].end_line = Len(lines')
  /\ (pc = "scan" /\ pc' = "done") =>
       /\ SubSeq(Blocks', 1, Len(Blocks)) = Blocks
       /\ \A i \in 1..Len(C19_Appended) : C19_Appended[i].end_line = Len(lines)
C19_Order ==
  \A i, j \in 1..Len(Blocks) :
    i < j =>
      /\ Blocks[i].end_line <= Blocks[j].end_line
      /\ Blocks[i].end_line = Blocks[j].end_line =>
           pc = "done" /\ Blocks[j].end_line = LastLine
\* C19: a line closes at most one block, also a line with several terminators;
\* a closed block is appended when it closes, so the list of closed blocks is
\* ordered by non-decreasing end_line and the blocks closed by a closing line
\* have pairwise distinct end lines (only finalization repeats an end line).
C19_OneBlockClosedPerLine == []C19_Order /\ [][C19_Step]_vars
\* two blocks are open and a line with two terminators has closed one of them
C19_Witness ==
  /\ pc = "scan"
  /\ Len(lines) = 3
  /\ lines[3] \in {"RUN; QUIT;", "RUN; %MEND;"}
  /\ Len(Open) = 1
  /\ Len(Blocks) = 1
  /\ Blocks[1].end_line = 3
  /\ Blocks[1].start_line = 2

(* ------------------------------- C20 ---------------------------------- *)
\* the block-opening lines among the first k lines
OpeningLines(k) == {i \in 1..k : OpensBlock(impl, Cleaned(i))}
\* the blocks of the open stack followed by the closed ones
AllBlocks == Open \o Blocks
C20_Conserved ==
  pc \in {"scan", "done"} =>
    /\ Len(Open) + Len(Blocks) = Cardinality(OpeningLines(LastLine))
    /\ \A k \in OpeningLines(LastLine) :
         Cardinality({i \in 1..Len(AllBlocks) : AllBlocks[i].start_line = k}) = 1
    /\ \A i \in 1..Len(AllBlocks) : AllBlocks[i].start_line \in OpeningLines(LastLine)
    /\ \A i, j \in 1..Len(Open) : i < j => Open[i].start_line < Open[j].start_line
    /\ pc = "done" => Open = <<>>
C20_Finalized ==
  (pc = "scan" /\ pc' = "done") =>
    /\ Open' = <<>>
    /\ Len(Blocks') = Len(Blocks) + Len(Open)
    /\ SubSeq(Blocks', 1, Len(Blocks)) = Blocks
    /\ \A i \in 1..Len(Open) :
         Blocks'[Len(Blocks) + i] = [Open[Len(Open) + 1 - i] EXCEPT !.end_line = Len(lines)]
\* C20: no opened block is lost or duplicated: after every line the open stack
\* and the closed list hold together exactly one block for each block-opening
\* line read so far; after finalization the stack is empty and the blocks that
\* were still open come last in the list, the latest opened first.
C20_NoBlockLostOrDuplicated == []C20_Conserved /\ [][C20_Finalized]_vars
\* one block closed by a closing line, then two unterminated blocks, the
\* inner one before the outer one
C20_Witness ==
  /\ pc = "done"
  /\ Len(Blocks) = 3
  /\ ~IsBlockEnd(impl, Cleaned(LastLine))
  /\ Blocks[1].end_line < LastLine
  /\ Blocks[2].end_line = LastLine
  /\ Blocks[3].end_line = LastLine
  /\ Blocks[3].start_line < Blocks[2].start_line
  /\ Blocks[1].end_line < Blocks[3].start_line

(* ------------------------------- C21 ---------------------------------- *)
\* the line a step reads, normalized
C21_NewCleaned == strip(clean_line(Lex(lines'[Len(lines')])))
C21_EmptyLineStep ==
  (LineStep /\ C21_NewCleaned = <<>>) =>
    /\ state' = state
    /\ [results' EXCEPT !.line_analysis = results.line_analysis] = results
    /\ DOMAIN results'.line_analysis = DOMAIN results.line_analysis \cup {Len(lines')}
    /\ results'.line_analysis[Len(lines')].cleaned = <<>>
    /\ \A k \in DOMAIN results.line_analysis :
         results'.line_analysis[k] = results.line_analysis[k]
\* C21: a line whose normalized form is empty (blank or comment-only) leaves
\* the open blocks, the closed blocks, the macro stack, the SQL flag and buffer
\* and every fact table as they were; it only adds the classification record
\* of its line number.  The class adds no record for such a line.
C21_EmptyLineOnlyClassified == [][C21_EmptyLineStep]_vars

(* ------------------------------- C22 ---------------------------------- *)
\* the %IDENTIFIER tokens of line k
PctNames(k) == {Cleaned(k)[i].v : i \in {j \in 1..Len(Cleaned(k)) : Cleaned(k)[j].k = "pct"}}
\* the system directives the exclusion set must hold in any case
C22_Directives == {"MACRO", "MEND", "LET", "IF", "DO", "INCLUDE", "SYSFUNC"}
\* C22: a %IDENTIFIER token is a key of macros_called, with its line, exactly
\* when IDENTIFIER is outside the exclusion set of system directives and
\* built-in function names; %MACRO, %MEND, %LET, %IF, %DO, %INCLUDE and
\* %SYSFUNC are never keys.  The class excludes twelve names only, and
\* %SYSFUNC and %THEN are not among them.
C22_MacroCallsExcludeSystemNames ==
  pc \in {"scan", "done"} =>
    /\ DOMAIN results.macros_called \cap C22_Directives = {}
    /\ \A k \in 1..LastLine : \A n \in PctNames(k) :
         n \notin system_macros_func =>
           /\ n \in DOMAIN results.macros_called
           /\ \E i \in 1..Len(results.macros_called[n]) : results.macros_called[n][i] = k
    /\ \A n \in DOMAIN results.macros_called :
         /\ n \notin system_macros_func
         /\ \A i \in 1..Len(results.macros_called[n]) :
              n \in PctNames(results.macros_called[n][i])

(* ------------------------------- C23 ---------------------------------- *)
\* line k as the collector sees it: the raw line in upper case
RawUpper(k) == upper(Lex(lines[k]))
\* the lines between s and e that reach the collector (their normalized form
\* is not empty) and are neither a PROC SQL line nor a terminator line
ContentLines(s, e) ==
  {k \in (s + 1)..(e - 1) :
     Cleaned(k) # <<>> /\ ~IsProcSql(RawUpper(k)) /\ ~RawHasTerminator(RawUpper(k))}
C23_Text ==
  \A i \in 1..Len(Queries) :
    LET q == Queries[i] IN
      /\ IsProcSql(RawUpper(q.start_line))
      /\ \A k \in (q.start_line + 1)..(q.end_line - 1) :
           Cleaned(k) # <<>> => ~IsProcSql(RawUpper(k))
      /\ q.query = TextOfLines(ContentLines(q.start_line, q.end_line))
C23_Reset ==
  (LineStep /\ state.in_sql_block /\ IsProcSql(upper(Lex(lines'[Len(lines')])))) =>
    /\ state'.in_sql_block
    /\ state'.current_sql_query = <<>>
    /\ state'.sql_block_start = Len(lines')
    /\ Queries' = Queries
\* C23: the text of an emitted SqlQuery is the single-space join, in line
\* order, of the trimmed raw text of every line with a non-empty normalized
\* form that lies after the most recent PROC SQL line and before the
\* terminator line and is neither of the two; a PROC SQL line met inside a
\* block empties the buffer and moves the start line to itself.
C23_QueryText == []C23_Text /\ [][C23_Reset]_vars
\* the record of a block of two different content lines with a comment-only
\* line between them: the two lines in their order, the comment-only line left out
C23_Witness ==
  /\ Len(Queries) = 1
  /\ Queries[1].start_line = 1
  /\ Queries[1].end_line = 5
  /\ Cleaned(3) = <<>>
  /\ lines[2] # lines[4]
  /\ Queries[1].query = strip(Lex(lines[2])) \o <<W>> \o strip(Lex(lines[4]))

\* the lines between s and e whose text is not empty and that are neither a
\* PROC SQL line nor a terminator line
NonEmptyLines(s, e) ==
  {k \in (s + 1)..(e - 1) :
     strip(Lex(lines[k])) # <<>> /\ ~IsProcSql(RawUpper(k)) /\ ~RawHasTerminator(RawUpper(k))}
\* C23 as stated: the text of an emitted SqlQuery is the single-space join, in
\* line order, of the trimmed text of every non-empty line between the most
\* recent PROC SQL line and the terminator line that is neither of the two.
\* A comment-only line in the block is not empty, and is not in the text.
C23_QueryText_Original ==
  \A i \in 1..Len(Queries) :
    Queries[i].query = TextOfLines(NonEmptyLines(Queries[i].start_line, Queries[i].end_line))

(* ------------------------------- C24 ---------------------------------- *)
\* block a ends before block b starts
Before(a, b) == a.end_line < b.start_line
\* block b lies inside block a, which opened on an earlier line
Inside(a, b) ==
  a.start_line < b.start_line /\ b.start_line <= b.end_line /\ b.end_line <= a.end_line
\* C24: in the final block list no two blocks share a start line, and the
\* spans of two blocks are disjoint or nested: of two blocks the one opened
\* first either ends before the other starts or encloses it.
C24_SpansDisjointOrNested ==
  pc = "done" =>
    \A i, j \in 1..Len(Blocks) :
      /\ i # j => Blocks[i].start_line # Blocks[j].start_line
      /\ Blocks[i].start_line < Blocks[j].start_line =>
           Before(Blocks[i], Blocks[j]) \/ Inside(Blocks[i], Blocks[j])
\* a block that encloses two blocks which are disjoint from each other, the
\* first of them closed on a later line than it opened
C24_Witness ==
  /\ pc = "done"
  /\ \E i, j, k \in 1..Len(Blocks) :
       /\ Inside(Blocks[i], Blocks[j])
       /\ Inside(Blocks[i], Blocks[k])
       /\ Before(Blocks[j], Blocks[k])
       /\ Blocks[j].start_line < Blocks[j].end_line

(* ------------------------------- C25 ---------------------------------- *)
\* the line a step reads opens a block and holds a closing marker
C25_OpensAndCloses ==
  /\ LineStep
  /\ OpensBlock(impl, C21_NewCleaned)
  /\ IsBlockEnd(impl, C21_NewCleaned)
C25_Step ==
  C25_OpensAndCloses =>
    /\ Open' = Open
    /\ Blocks' =
         Append(Blocks,
                [check_block_start(impl, C21_NewCleaned, Len(lines'), <<>>)[1]
                   EXCEPT !.end_line = Len(lines')])
    /\ Blocks'[Len(Blocks')].start_line = Len(lines')
    /\ Blocks'[Len(Blocks')].end_line = Len(lines')
\* C25: on each line the block-open check runs before the block-close check:
\* a line that opens a block and holds a terminator (PROC PRINT DATA=X; RUN;)
\* closes the block it has just opened, with start_line = end_line, and every
\* block that was open before the line stays open.
C25_OpenBeforeClose == [][C25_Step]_vars
\* PROC PRINT DATA=X; RUN; has been read while a block was open: its one-line
\* block is closed and the block opened before is still open
C25_Witness ==
  /\ pc = "scan"
  /\ LastLine >= 2
  /\ lines[LastLine] = "PROC PRINT DATA=X; RUN;"
  /\ Open # <<>>
  /\ Top(Open).start_line < LastLine
  /\ Blocks # <<>>
  /\ Blocks[Len(Blocks)].type = "PROC"
  /\ Blocks[Len(Blocks)].start_line = LastLine
  /\ Blocks[Len(Blocks)].end_line = LastLine

(* ------------------------------- C26 ---------------------------------- *)
Procedures == results.procedures_used
ProcBlocks == {i \in 1..Len(Blocks) : Blocks[i].type = "PROC"}
RECURSIVE SumOver(_, _)
SumOver(f, K) ==
  IF K = {} THEN 0
  ELSE LET x == CHOOSE y \in K : TRUE IN f[x] + SumOver(f, K \ {x})
\* the number of procedure instances, over all procedure names
Instances == SumOver([p \in DOMAIN Procedures |-> Len(Procedures[p])], DOMAIN Procedures)
\* C26: the block tracker and the procedure extractor agree: every PROC block
\* of the final list, with start line s, procedure name p and dataset d
\* (UNKNOWN without a DATA= option), has an instance with line s and dataset d
\* in procedures_used[p]; instances are kept one per occurrence, so there are
\* at least as many instances as PROC blocks.
C26_ProcBlocksAreProcedures ==
  pc = "done" =>
    /\ \A i \in ProcBlocks :
         /\ Blocks[i].proc_name \in DOMAIN Procedures
         /\ \E j \in 1..Len(Procedures[Blocks[i].proc_name]) :
              Procedures[Blocks[i].proc_name][j] =
                [line |-> Blocks[i].start_line, dataset |-> Blocks[i].dataset]
    /\ Instances >= Cardinality(ProcBlocks)
\* two PROC blocks of the same procedure, one with a dataset and one without
\* among the blocks, and a PROC statement that opened no block
C26_Witness ==
  /\ pc = "done"
  /\ \E i, j \in ProcBlocks :
       /\ i # j
       /\ Blocks[i].proc_name = Blocks[j].proc_name
       /\ Blocks[i].dataset # "UNKNOWN"
  /\ \E i \in ProcBlocks : Blocks[i].dataset = "UNKNOWN"
  /\ Instances > Cardinality(ProcBlocks)

(* ------------------------------- C27 ---------------------------------- *)
\* C27: every emitted SqlQuery has a non-empty query text and ends at least
\* two lines after it starts, and the records do not overlap: in the order of
\* emission each record starts after the record before it has ended.
C27_SqlQueriesApart ==
  /\ \A i \in 1..Len(Queries) :
       /\ Queries[i].query # <<>>
       /\ Queries[i].end_line >= Queries[i].start_line + 2
  /\ \A i \in 1..(Len(Queries) - 1) : Queries[i + 1].start_line > Queries[i].end_line
\* two records, the second of a block opened on the line after the first
\* record's terminator and closed two lines later
C27_Witness ==
  /\ Len(Queries) = 2
  /\ Queries[2].start_line = Queries[1].end_line + 1
  /\ Queries[2].end_line = Queries[2].start_line + 2

(* ------------------------------- C28 ---------------------------------- *)
\* the open stack holds a PROC block that starts where the collector's block starts
SqlBlockIsOpen ==
  \E i \in 1..Len(Open) :
    Open[i].type = "PROC" /\ Open[i].start_line = state.sql_block_start
\* no line from the PROC SQL line on holds a closing marker of the block tracker
NoCloserSinceSql ==
  \A k \in state.sql_block_start..LastLine : ~IsBlockEnd(impl, Cleaned(k))
\* C28: the SQL collector and the block tracker agree on a PROC SQL region up
\* to the first closing marker: whenever the collector is in a block after a
\* line, and no line from its PROC SQL line on holds RUN or QUIT followed by
\* a semicolon, or %MEND, the open stack holds a PROC block that starts at the
\* collector's block start.
C28_SqlBlockOpenUntilCloser ==
  (pc = "scan" /\ state.in_sql_block /\ NoCloserSinceSql) => SqlBlockIsOpen
\* the collector is in a block opened after another block, with lines read since
C28_Witness ==
  /\ pc = "scan"
  /\ state.in_sql_block
  /\ NoCloserSinceSql
  /\ state.sql_block_start > 1
  /\ LastLine > state.sql_block_start
  /\ Len(Open) >= 2
  /\ state.current_sql_query # <<>>
\* C28 as stated: whenever the collector is in a block after a line, the open
\* stack holds a PROC block that starts at the collector's block start.  The
\* tracker also closes on %MEND, on RUN ; and on a QUIT; of the PROC SQL line
\* itself, where the collector stays in the block.
C28_SqlBlockOpen_Original == (pc = "scan" /\ state.in_sql_block) => SqlBlockIsOpen

(* ------------------------------- C29 ---------------------------------- *)
\* no two macro definition lines of the input define the same name
DistinctMacroNames ==
  \A i, j \in 1..LastLine :
    (i # j /\ DefAt(Cleaned(i)) # 0 /\ DefAt(Cleaned(j)) # 0) =>
      MacroName(Cleaned(i), DefAt(Cleaned(i))) # MacroName(Cleaned(j), DefAt(Cleaned(j)))
MacroBlocks == {i \in 1..Len(Blocks) : Blocks[i].type = "MACRO"}
\* the MACRO block b and the record of its macro: same line, and the same end
\* line when the record has one
SameExtent(b) ==
  /\ b.macro_name \in DOMAIN results.macros_defined
  /\ results.macros_defined[b.macro_name].line = b.start_line
  /\ results.macros_defined[b.macro_name].end_line # None =>
       results.macros_defined[b.macro_name].end_line = b.end_line
\* every closing line has closed a block of its own kind: a MACRO block ends
\* on a %MEND line that names no other macro (or was left open), a DATA or
\* PROC block does not end on a %MEND line
ClosedByOwnKind ==
  \A i \in 1..Len(Blocks) :
    LET c == Cleaned(Blocks[i].end_line) IN
      IF Blocks[i].type = "MACRO"
      THEN /\ IsBlockEnd(impl, c) => MendAt(c) # 0
           /\ MendAt(c) # 0 => MendName(c, MendAt(c)) \in {"", Blocks[i].macro_name}
      ELSE MendAt(c) = 0
Processed == {k \in 1..LastLine : Cleaned(k) # <<>>}
\* the timestamp literals of line k
SeenAt(k) == {Timestamps(strip(Lex(lines[k])))[i] : i \in 1..Len(Timestamps(strip(Lex(lines[k]))))}
Seen == UNION {SeenAt(k) : k \in Processed}
FirstLineOf(t) == CHOOSE k \in Processed : t \in SeenAt(k) /\ \A j \in Processed : t \in SeenAt(j) => k <= j
\* C30: after any sequence of processed lines timeframe_start is None exactly
\* when timeframe_end is None; when set, timeframe_start holds the least and
\* timeframe_end the greatest timestamp literal seen so far, in the order of
\* strings, each with the line of its first occurrence, so the start is not
\* after the end.
C30_TimeframeBounds ==
  pc \in {"scan", "done"} =>
    LET s == results.timeframe_start
        e == results.timeframe_end
    IN  /\ s = NoTimeframe <=> e = NoTimeframe
        /\ s = NoTimeframe <=> Seen = {}
        /\ s # NoTimeframe =>
             /\ s.timestamp \in Seen
             /\ e.timestamp \in Seen
             /\ \A t \in Seen : ~TsLess(t, s.timestamp) /\ ~TsLess(e.timestamp, t)
             /\ s.line = FirstLineOf(s.timestamp)
             /\ e.line = FirstLineOf(e.timestamp)
             /\ ~TsLess(e.timestamp, s.timestamp)
\* three different literals have been seen, the greatest one twice and the
\* least one last: the end keeps the line of the first occurrence
C30_Witness ==
  /\ pc = "done"
  /\ Cardinality(Seen) = 3
  /\ results.timeframe_end.line = 1
  /\ \E k \in Processed : k > 1 /\ results.timeframe_end.timestamp \in SeenAt(k)
  /\ results.timeframe_start.line = LastLine
====
